---- MODULE Spec2Model ----
(***************************************************************************)
(* Model of the openai_responses client (src/src/openai_responses).        *)
(*                                                                         *)
(* One client object, one call at a time (the client has no internal       *)
(* concurrency).  A call enters through a public operation of the facade   *)
(* (generate_response or one of the three create_*_response wrappers) or   *)
(* directly through _make_request.  The retry loop of _make_request is     *)
(* taken one iteration per step: each iteration is one session.post whose  *)
(* outcome is chosen by the environment (the remote service and the        *)
(* network).                                                               *)
(***************************************************************************)
EXTENDS Integers, Sequences, FiniteSets, TLC

\* ------------------------------------------------------------------ bounds

\* Largest max_retries explored when _make_request is called directly.
MaxRetries == 3
\* Largest max_retries explored when the call goes through the facade.
MaxRetriesFacade == 1
\* Longest tool list handed to the facade.
MaxTools == 1

\* ----------------------------------------------------------- Python values

\* Optional[T]: None is the empty set, a value x is {x}.
None == {}
Some(x) == {x}
IsNone(o) == o = {}
TheValue(o) == CHOOSE x \in o : TRUE

\* JSON values as Python sees them after decoding, tagged by Python type.
JDict(f) == [t |-> "dict", v |-> f]
JList(s) == [t |-> "list", v |-> s]
JStr(s) == [t |-> "str", v |-> s]
JInt(n) == [t |-> "int", v |-> n]
JNone == [t |-> "NoneType", v |-> {}]
EmptyDict == [k \in {} |-> JNone]

IsDict(j) == j.t = "dict"
HasKey(j, k) == k \in DOMAIN j.v
\* dict.get(k, default)
DictGet(j, k, default) == IF HasKey(j, k) THEN j.v[k] ELSE default

\* A response body: what response.content holds and what response.json() yields.
\* content "empty": no bytes; "text": bytes that are not JSON; "json": bytes
\* that decode to the value in json.
EmptyBody == [content |-> "empty", json |-> JNone]
TextBody == [content |-> "text", json |-> JNone]
JsonBody(j) == [content |-> "json", json |-> j]

\* response.content is truthy
HasContent(body) == body.content # "empty"
\* response.json() returns (it raises JSONDecodeError otherwise)
JsonDecodes(body) == body.content = "json"

\* ---------------------------------------------------------------- exceptions

\* Exception classes of exceptions.py and their base classes.
LibraryErrors ==
    {"OpenAIResponsesError", "APIError", "ValidationError",
     "AuthenticationError", "RateLimitError", "QuotaExceededError"}

APIErrorClasses ==
    {"APIError", "AuthenticationError", "RateLimitError", "QuotaExceededError"}

\* isinstance(e, OpenAIResponsesError)
IsOpenAIResponsesError(e) == e.type \in LibraryErrors
\* isinstance(e, APIError)
IsAPIError(e) == e.type \in APIErrorClasses

\* OpenAIResponsesError.__init__: response_data or {}
OpenAIResponsesError_init(type, message, status_code, response_data) ==
    [type |-> type,
     message |-> message,
     status_code |-> status_code,
     response_data |-> IF IsNone(response_data) THEN JDict(EmptyDict)
                       ELSE TheValue(response_data)]

APIError(message, status_code, response_data) ==
    OpenAIResponsesError_init("APIError", message, status_code, response_data)

StatusUnauthorized == 401
StatusPaymentRequired == 402
StatusTooManyRequests == 429
StatusOK == 200

AuthenticationError(message) ==
    OpenAIResponsesError_init("AuthenticationError", message,
                              Some(StatusUnauthorized), None)

RateLimitError(message) ==
    OpenAIResponsesError_init("RateLimitError", message,
                              Some(StatusTooManyRequests), None)

QuotaExceededError(message) ==
    OpenAIResponsesError_init("QuotaExceededError", message,
                              Some(StatusPaymentRequired), None)

\* An exception that is not of the library (ValueError, AttributeError,
\* TypeError, pydantic's ValidationError): it has no status_code attribute.
ForeignError(type, message) ==
    [type |-> type,
     message |-> message,
     status_code |-> None,
     response_data |-> JDict(EmptyDict)]

\* ------------------------------------------------------------ call outcomes

NoOutcome == [kind |-> "none", value |-> JNone, exc |-> ForeignError("", "")]
Returned(v) == [kind |-> "return", value |-> v, exc |-> ForeignError("", "")]
Raised(e) == [kind |-> "raise", value |-> JNone, exc |-> e]

\* ------------------------------------------------------- the remote service

\* Retry-After header text as a sequence of characters.
RetryAfterTexts ==
    { <<"1">>, <<"1", "0">>,                  \* delay-seconds
      <<"-", "1">>,                           \* a negative number
      <<"W", "e", "d", ",">> }                \* the start of an HTTP-date

\* Statuses the status dispatch has no branch for.
OtherStatuses == {404, 500}

ErrorBodies ==
    { EmptyBody,
      TextBody,
      JsonBody(JDict([error |-> JDict([message |-> JStr("boom")])])),
      JsonBody(JDict([error |-> JDict([code |-> JStr("E1")])])),
      JsonBody(JDict([detail |-> JStr("x")])),
      JsonBody(JDict([error |-> JStr("boom")])),
      JsonBody(JList(<<>>)) }

ReplyBodies ==
    { JsonBody(JDict([id |-> JStr("resp_1")])),
      JsonBody(JDict([object |-> JStr("response")])),
      JsonBody(JList(<<>>)),
      TextBody,
      EmptyBody }

\* What one session.post can end in.
HttpReply(status, header, body) ==
    [kind |-> "response", status_code |-> status, retry_after |-> header,
     body |-> body]
TimeoutReply ==
    [kind |-> "timeout", status_code |-> 0, retry_after |-> None,
     body |-> EmptyBody]
ConnectionErrorReply ==
    [kind |-> "connection_error", status_code |-> 0, retry_after |-> None,
     body |-> EmptyBody]

PostOutcomes ==
    {TimeoutReply, ConnectionErrorReply}
    \cup {HttpReply(StatusOK, None, b) : b \in ReplyBodies}
    \cup {HttpReply(StatusUnauthorized, None, EmptyBody),
          HttpReply(StatusPaymentRequired, None, EmptyBody)}
    \cup {HttpReply(StatusTooManyRequests, h, EmptyBody) :
            h \in {None} \cup {Some(t) : t \in RetryAfterTexts}}
    \cup {HttpReply(s, None, b) : s \in OtherStatuses, b \in ErrorBodies}

\* ------------------------------------------------------ Python conversions

Digits == {"0", "1", "2", "3", "4", "5", "6", "7", "8", "9"}

DigitValue(c) ==
    CASE c = "0" -> 0 [] c = "1" -> 1 [] c = "2" -> 2 [] c = "3" -> 3
      [] c = "4" -> 4 [] c = "5" -> 5 [] c = "6" -> 6 [] c = "7" -> 7
      [] c = "8" -> 8 [] c = "9" -> 9

AllDigits(s) == Len(s) > 0 /\ \A i \in 1..Len(s) : s[i] \in Digits

RECURSIVE DigitsValue(_)
DigitsValue(s) ==
    IF s = <<>> THEN 0
    ELSE 10 * DigitsValue(SubSeq(s, 1, Len(s) - 1)) + DigitValue(s[Len(s)])

\* int(text) for a header text: an optional sign and decimal digits give the
\* number; anything else raises ValueError (None here).
PyInt(s) ==
    IF AllDigits(s) THEN Some(DigitsValue(s))
    ELSE IF Len(s) > 1 /\ s[1] = "-" /\ AllDigits(Tail(s))
         THEN Some(0 - DigitsValue(Tail(s)))
    ELSE IF Len(s) > 1 /\ s[1] = "+" /\ AllDigits(Tail(s))
         THEN Some(DigitsValue(Tail(s)))
    ELSE None

\* ------------------------------------------------------------ _make_request

\* What one iteration of the retry loop ends in.
Continue(seconds) ==
    [kind |-> "continue", slept |-> Some(seconds), value |-> JNone,
     exc |-> ForeignError("", "")]
Return(v) ==
    [kind |-> "return", slept |-> None, value |-> v,
     exc |-> ForeignError("", "")]
Raise(e) ==
    [kind |-> "raise", slept |-> None, value |-> JNone, exc |-> e]

DefaultRetryAfter == 60

\* The header is never read: every 429 waits the default.
RetryAfterSeconds_HeaderIgnored(header) == Some(DefaultRetryAfter)

\* int(response.headers.get("Retry-After", 60))
RetryAfterSeconds(header) ==
    IF IsNone(header) THEN Some(DefaultRetryAfter) ELSE PyInt(TheValue(header))

\* 2 * attempt written for 2 ** attempt.
Backoff_Product(attempt) == 2 * attempt

\* 2 ** attempt
Backoff(attempt) == 2 ^ attempt

\* A network failure is always retried, whatever the attempt number.
OnRequestException_AlwaysRetried(attempt, retries, message) ==
    Continue(Backoff(attempt))

\* A network failure on the last attempt raises RateLimitError.
OnRequestException_RateLimited(attempt, retries, message) ==
    IF attempt < retries
    THEN Continue(Backoff(attempt))
    ELSE Raise(RateLimitError("Rate limit exceeded."))

\* The bodies of the two except clauses (Timeout, RequestException).
OnRequestException(attempt, retries, message) ==
    IF attempt < retries
    THEN Continue(Backoff(attempt))
    ELSE Raise(APIError(message, None, None))

\* response.json() raised.  requests.exceptions.JSONDecodeError is a
\* RequestException in the releases that define it, and then the except clause
\* for RequestException handles it; in the others response.json() raises the
\* json module's JSONDecodeError, a ValueError, which leaves _make_request.
OnJsonDecodeError(attempt, retries, isRequestException) ==
    IF isRequestException
    THEN OnRequestException(attempt, retries,
                            "Request failed: " \o "Expecting value")
    ELSE Raise(ForeignError("JSONDecodeError", "Expecting value"))

\* The 429 branch with attempt <= self.max_retries for the guard.
OnTooManyRequests_OffByOne(attempt, retries, header) ==
    IF attempt <= retries
    THEN LET retry_after == IF IsNone(header) THEN Some(DefaultRetryAfter)
                            ELSE PyInt(TheValue(header)) IN
         IF IsNone(retry_after)
         THEN Raise(ForeignError("ValueError", "invalid literal for int()"))
         ELSE IF TheValue(retry_after) < 0
         THEN Raise(ForeignError("ValueError",
                                 "sleep length must be non-negative"))
         ELSE Continue(TheValue(retry_after))
    ELSE Raise(RateLimitError("Rate limit exceeded."))

\* The 429 branch.
OnTooManyRequests(attempt, retries, header) ==
    IF attempt < retries
    THEN LET retry_after == RetryAfterSeconds(header) IN
         IF IsNone(retry_after)
         THEN Raise(ForeignError("ValueError", "invalid literal for int()"))
         ELSE IF TheValue(retry_after) < 0
         THEN Raise(ForeignError("ValueError",
                                 "sleep length must be non-negative"))
         ELSE Continue(TheValue(retry_after))
    ELSE Raise(RateLimitError("Rate limit exceeded."))

\* f"HTTP {response.status_code}"
HttpMessage(status) == "HTTP " \o ToString(status)

\* The else branch: any status without a branch of its own.
OnOtherStatus(attempt, retries, status, body, isRequestException) ==
    IF HasContent(body) /\ ~JsonDecodes(body)
    THEN OnJsonDecodeError(attempt, retries, isRequestException)
    ELSE LET error_data == IF HasContent(body) THEN body.json
                           ELSE JDict(EmptyDict) IN
         IF ~IsDict(error_data)
         THEN Raise(ForeignError("AttributeError", "object has no attribute 'get'"))
         ELSE LET error == DictGet(error_data, "error", JDict(EmptyDict)) IN
              IF ~IsDict(error)
              THEN Raise(ForeignError("AttributeError",
                                      "object has no attribute 'get'"))
              ELSE LET error_message ==
                           DictGet(error, "message", JStr(HttpMessage(status)))
                   IN Raise(APIError(error_message.v, Some(status),
                                     Some(error_data)))

\* The 200 branch returning an empty dictionary for the body.
OnOK_BodyDropped(attempt, retries, body, isRequestException) ==
    Return(JDict(EmptyDict))

\* The 200 branch: return response.json()
OnOK(attempt, retries, body, isRequestException) ==
    IF JsonDecodes(body)
    THEN Return(body.json)
    ELSE OnJsonDecodeError(attempt, retries, isRequestException)

\* The 401 branch handled like a transient failure.
OnUnauthorized_Retried(attempt, retries) ==
    OnRequestException(attempt, retries,
                       "Invalid API key or authentication failed.")

\* The 401 branch.
OnUnauthorized(attempt, retries) ==
    Raise(AuthenticationError("Invalid API key or authentication failed."))

\* The 402 branch handled like a transient failure.
OnPaymentRequired_Retried(attempt, retries) ==
    OnRequestException(attempt, retries, "Quota exceeded.")

\* The 402 branch.
OnPaymentRequired(attempt, retries) ==
    Raise(QuotaExceededError("Quota exceeded."))

\* The status dispatch on a response that arrived.
OnResponse(attempt, retries, reply, isRequestException) ==
    IF reply.status_code = StatusOK
    THEN OnOK(attempt, retries, reply.body, isRequestException)
    ELSE IF reply.status_code = StatusUnauthorized
    THEN OnUnauthorized(attempt, retries)
    ELSE IF reply.status_code = StatusTooManyRequests
    THEN OnTooManyRequests(attempt, retries, reply.retry_after)
    ELSE IF reply.status_code = StatusPaymentRequired
    THEN OnPaymentRequired(attempt, retries)
    ELSE OnOtherStatus(attempt, retries, reply.status_code, reply.body,
                       isRequestException)

\* One iteration of the loop body: session.post and what follows it.
Iteration(attempt, retries, reply, isRequestException) ==
    IF reply.kind = "timeout"
    THEN OnRequestException(attempt, retries, "Request timeout")
    ELSE IF reply.kind = "connection_error"
    THEN OnRequestException(attempt, retries,
                            "Request failed: " \o "Connection refused")
    ELSE OnResponse(attempt, retries, reply, isRequestException)

\* The function ends after the loop without a raise: it returns None.
AfterLoop_ReturnsNone == Return(JNone)

\* The statement after the loop.
AfterLoop == Raise(APIError("Request failed after all retries", None, None))

\* -------------------------------------------------------------- models.py

\* A Python string whose letter case matters to the code: its letters in
\* lower case, and the positions written in upper case.
Str(base, upper) == [base |-> base, upper |-> upper]
\* A string literal of the source (all lower case).
Lit(base) == Str(base, {})
\* str.lower()
Lower(s) == Str(s.base, {})

valid_types ==
    {Lit("email"), Lit("letter"), Lit("message"), Lit("response"),
     Lit("reply"), Lit("note")}

valid_styles ==
    {Lit("professional"), Lit("casual"), Lit("formal"), Lit("friendly"),
     Lit("business")}

valid_tones ==
    {Lit("friendly"), Lit("polite"), Lit("assertive"), Lit("neutral"),
     Lit("enthusiastic"), Lit("sympathetic"), Lit("professional")}

\* The type is checked in lower case and returned as it was written.
validate_type_CaseKept(v) ==
    IF Lower(v) \notin valid_types THEN None ELSE Some(v)

\* ResponseFormat.validate_type: the field is required, so v is a string.
validate_type(v) ==
    IF Lower(v) \notin valid_types THEN None ELSE Some(Lower(v))

\* ResponseFormat.validate_style: None when it raises ValueError, else the
\* value returned (itself an Optional[str]).
validate_style(v) ==
    IF ~IsNone(v)
    THEN IF Lower(TheValue(v)) \notin valid_styles THEN None
         ELSE Some(Some(Lower(TheValue(v))))
    ELSE Some(v)

\* ResponseFormat.validate_tone
validate_tone(v) ==
    IF ~IsNone(v)
    THEN IF Lower(TheValue(v)) \notin valid_tones THEN None
         ELSE Some(Some(Lower(TheValue(v))))
    ELSE Some(v)

\* The fields a ResponseFormat is built from: type is None when the key is
\* missing; style, tone and length are None when missing or None.
FormatFields(type, style, tone, length) ==
    [type |-> type, style |-> style, tone |-> tone, length |-> length]

\* ResponseFormat(**fields): the validated object, or None when pydantic
\* raises its ValidationError (a required field missing, or a validator
\* raising ValueError).
ResponseFormat_new(fields) ==
    IF IsNone(fields.type) THEN None
    ELSE LET type == validate_type(TheValue(fields.type))
             style == validate_style(fields.style)
             tone == validate_tone(fields.tone)
         IN IF IsNone(type) \/ IsNone(style) \/ IsNone(tone) THEN None
            ELSE Some(FormatFields(type, TheValue(style), TheValue(tone),
                                   fields.length))

tool_valid_types ==
    {"function", "code_interpreter", "file_search", "web_search_preview",
     "web_search_preview_2025_03_11", "image_generation", "mcp",
     "computer_use_preview"}

\* ToolFunction(**fields): name and parameters are required.
ToolFunction_new(fields) ==
    IF IsNone(fields.name) \/ IsNone(fields.parameters) THEN None
    ELSE IF ~IsDict(TheValue(fields.parameters)) THEN None
    ELSE Some(fields)

\* Tool.validate_type: no case folding.
tool_validate_type(v) ==
    IF v \notin tool_valid_types THEN None ELSE Some(v)

\* Tool(**fields): the validated object, or None when pydantic raises.
Tool_new(fields) ==
    IF IsNone(fields.type) THEN None
    ELSE LET type == tool_validate_type(TheValue(fields.type))
             function == IF IsNone(fields.function) THEN Some(None)
                         ELSE LET f == ToolFunction_new(TheValue(fields.function))
                              IN IF IsNone(f) THEN None ELSE Some(f)
         IN IF IsNone(type) \/ IsNone(function) THEN None
            ELSE Some([type |-> type, function |-> TheValue(function)])

\* ToolFunction.model_dump(exclude_none=True)
ToolFunction_dump(f) ==
    LET keys == {"name", "parameters"}
                \cup (IF IsNone(f.description) THEN {} ELSE {"description"})
    IN JDict([k \in keys |->
                 IF k = "name" THEN JStr(TheValue(f.name))
                 ELSE IF k = "description" THEN JStr(TheValue(f.description))
                 ELSE TheValue(f.parameters)])

\* Tool.model_dump(): an unset function is serialized as null.
Tool_dump_NoneKept(tool) ==
    JDict([k \in {"type", "function"} |->
              IF k = "type" THEN JStr(TheValue(tool.type))
              ELSE IF IsNone(tool.function) THEN JNone
              ELSE ToolFunction_dump(TheValue(tool.function))])

\* Tool.model_dump(exclude_none=True)
Tool_dump(tool) ==
    LET keys == {"type"} \cup (IF IsNone(tool.function) THEN {} ELSE {"function"})
    IN JDict([k \in keys |->
                 IF k = "type" THEN JStr(TheValue(tool.type))
                 ELSE ToolFunction_dump(TheValue(tool.function))])

\* The declared fields of ResponseResponse and the Python types each accepts.
ResponseFields ==
    {"id", "object", "created_at", "status", "model", "output", "usage",
     "metadata", "text"}

FieldTypes(field) ==
    CASE field \in {"id", "object", "status", "model"} -> {"str"}
      [] field = "created_at" -> {"int"}
      [] field = "output" -> {"list"}
      [] field \in {"usage", "metadata"} -> {"dict"}
      [] field = "text" -> {"str", "dict"}

\* ResponseResponse(**response): id is required, the other fields are
\* Optional; keys that are not fields are ignored.  A field is accepted by
\* the Python type of its value (pydantic's conversion of a numeric string
\* to int does not arise for the replies modelled here).
ResponseResponse_new(response) ==
    IF ~IsDict(response)
    THEN Raised(ForeignError("TypeError", "argument after ** must be a mapping"))
    ELSE IF \/ ~HasKey(response, "id")
            \/ \E f \in ResponseFields :
                 /\ HasKey(response, f)
                 /\ response.v[f].t \notin FieldTypes(f)
                 /\ ~(f # "id" /\ response.v[f] = JNone)
    THEN Raised(ForeignError("pydantic.ValidationError",
                             "validation error for ResponseResponse"))
    ELSE Returned([t |-> "ResponseResponse",
                   v |-> [f \in ResponseFields |-> DictGet(response, f, JNone)]])

\* ------------------------------------------------------ generate_response

\* Python truthiness of a decoded value
Truthy(j) ==
    CASE j.t = "NoneType" -> FALSE
      [] j.t = "str" -> j.v # ""
      [] j.t = "dict" -> DOMAIN j.v # {}
      [] j.t = "list" -> Len(j.v) > 0
      [] OTHER -> j.v # 0

JFloat(tenths) == [t |-> "float", v |-> tenths]

DefaultModel == JStr("gpt-4o")

\* The model argument: its default when the caller passes none.
ModelOf(a) == IF IsNone(a.model) THEN DefaultModel ELSE TheValue(a.model)

\* The dict is taken as it is, without the constructor.
ConvertFormat_Unchecked(response_format) == Some(response_format.fields)

\* if isinstance(response_format, dict): ResponseFormat(**response_format)
\* None when the constructor raises.
ConvertFormat(response_format) ==
    IF response_format.kind = "dict"
    THEN ResponseFormat_new(response_format.fields)
    ELSE Some(response_format.fields)

\* Tool(**tool) if isinstance(tool, dict) else tool; None when it raises.
ConvertTool(tool) ==
    IF tool.kind = "dict" THEN Tool_new(tool.fields) ELSE Some(tool.fields)

\* if tools: tools = [...]
ToolsGiven(tools) == ~IsNone(tools) /\ Len(TheValue(tools)) > 0

\* Every model takes temperature and top_p.
UsesEffortAndVerbosity_Never(model) == FALSE

\* Every model takes effort and verbosity.
UsesEffortAndVerbosity_Always(model) == TRUE

\* if model == "gpt-5": the branch that adds effort and verbosity; the else
\* branch adds temperature and top_p.
UsesEffortAndVerbosity(model) == model = JStr("gpt-5")

\* The format entry names the type of the converted response format.
TextFormat_FromFormat(response_format) ==
    JDict([type |-> JStr(TheValue(TheValue(response_format).type).base)])

\* "format": {"type": "text"}: a literal, whatever the converted
\* response_format holds.
TextFormat(response_format) == JDict([type |-> JStr("text")])

\* The request_data dictionary before the final filter, from the arguments
\* a, the model in use and the converted tools.
RequestData(a, model, tools) ==
    LET gpt5 == UsesEffortAndVerbosity(model)
        format == TextFormat(ConvertFormat(a.response_format))
        text == IF gpt5 /\ Truthy(a.verbosity)
                THEN JDict([format |-> format, verbosity |-> a.verbosity])
                ELSE JDict([format |-> format])
        keys == {"model", "input", "text"}
                \cup (IF gpt5 /\ Truthy(a.effort) THEN {"reasoning"} ELSE {})
                \cup (IF ~gpt5 /\ a.temperature # JNone
                      THEN {"temperature"} ELSE {})
                \cup (IF ~gpt5 /\ a.top_p # JNone THEN {"top_p"} ELSE {})
                \cup (IF Truthy(a.previous_response_id)
                      THEN {"previous_response_id"} ELSE {})
                \cup (IF Len(tools) > 0 THEN {"tools"} ELSE {})
                \cup (IF Truthy(a.tool_choice) THEN {"tool_choice"} ELSE {})
    IN [k \in keys |->
           CASE k = "model" -> model
             [] k = "input" -> a.prompt
             [] k = "text" -> text
             [] k = "reasoning" -> JDict([effort |-> a.effort])
             [] k = "temperature" -> a.temperature
             [] k = "top_p" -> a.top_p
             [] k = "previous_response_id" -> a.previous_response_id
             [] k = "tools" -> JList([i \in 1..Len(tools) |-> Tool_dump(tools[i])])
             [] k = "tool_choice" -> a.tool_choice]

\* {k: v for k, v in request_data.items() if v is not None}
RemoveNone(d) == [k \in {x \in DOMAIN d : d[x] # JNone} |-> d[k]]

\* The try block of generate_response up to the call of _make_request: the
\* payload handed to the transport, or the exception raised before it.
Prepare(a) ==
    LET format == ConvertFormat(a.response_format)
        given == ToolsGiven(a.tools)
        converted == IF given
                     THEN [i \in 1..Len(TheValue(a.tools)) |->
                             ConvertTool(TheValue(a.tools)[i])]
                     ELSE <<>>
    IN IF IsNone(format)
       THEN Raise(ForeignError("pydantic.ValidationError",
                               "validation error for ResponseFormat"))
       ELSE IF \E i \in 1..Len(converted) : IsNone(converted[i])
       THEN Raise(ForeignError("pydantic.ValidationError",
                               "validation error for Tool"))
       ELSE Return(JDict(RemoveNone(
                RequestData(a, ModelOf(a),
                            [i \in 1..Len(converted) |-> TheValue(converted[i])]))))

\* The catch-all wraps every exception, the library's own included.
FacadeExcept_WrapsAll(e) == APIError("Unexpected error: " \o e.message, None, None)

\* The except clauses of generate_response: the exception that leaves it.
FacadeExcept(e) ==
    IF e.type = "ValidationError" THEN e
    ELSE IF IsOpenAIResponsesError(e) THEN e
    ELSE APIError("Unexpected error: " \o e.message, None, None)

\* generate_response from the moment _make_request has ended with `made`.
AfterMakeRequest(made) ==
    IF made.kind = "return"
    THEN LET parsed == ResponseResponse_new(made.value) IN
         IF parsed.kind = "raise" THEN Raised(FacadeExcept(parsed.exc))
         ELSE parsed
    ELSE Raised(FacadeExcept(made.exc))

\* The response format a create_*_response wrapper builds, outside any try.
\* None when the constructor raises.
WrapperFormat(type, DefaultStyle, DefaultTone, a) ==
    ResponseFormat_new(
        FormatFields(Some(Lit(type)),
                     IF a.style.given THEN a.style.value ELSE Some(Lit(DefaultStyle)),
                     IF a.tone.given THEN a.tone.value ELSE Some(Lit(DefaultTone)),
                     a.length))

\* create_function_tool(name, description, parameters): the Tool, or None
\* when a constructor raises.
create_function_tool(name, description, parameters) ==
    LET function == ToolFunction_new([name |-> name, description |-> description,
                                      parameters |-> parameters])
    IN IF IsNone(function) THEN None
       ELSE Tool_new([type |-> Some("function"), function |-> function])

\* create_hosted_tool(hosted_tool_id): Tool(type=hosted_tool_id)
create_hosted_tool(hosted_tool_id) ==
    Tool_new([type |-> Some(hosted_tool_id), function |-> None])

\* ------------------------------------------ reading a ResponseResponse

\* hasattr(self, name): the declared fields are the attributes of the object.
HasAttr(self, name) == name \in DOMAIN self.v

\* The loop over the output is never entered.
ScansForMessage_Never(output) == FALSE

\* ResponseResponse.content: len(self.output) > 1, the guard of the loop
\* that looks for a message entry.
ScansForMessage(output) == Len(output) > 1

\* The body of that loop for one output_item: the text it returns, or None
\* when the loop goes on.  The entries are dicts, a content is a list or
\* null, the items of a content are dicts.
MessageText(output_item) ==
    IF /\ DictGet(output_item, "type", JNone) = JStr("message")
       /\ HasKey(output_item, "content")
    THEN LET content_list == output_item.v["content"] IN
         IF Truthy(content_list) /\ Len(content_list.v) > 0
         THEN LET content_item == content_list.v[1] IN
              IF HasKey(content_item, "text")
              THEN Some(content_item.v["text"]) ELSE None
         ELSE None
    ELSE None

\* for output_item in self.output, from entry i on: the first text returned.
RECURSIVE FirstMessageText(_, _)
FirstMessageText(output, i) ==
    IF i > Len(output) THEN None
    ELSE LET found == MessageText(output[i]) IN
         IF ~IsNone(found) THEN found ELSE FirstMessageText(output, i + 1)

\* The second block of content, on output[0]: how the block ends content
\* (a return, or the TypeError of len(None)), or None when it falls through.
FirstItemText(output) ==
    LET output_item == output[1] IN
    IF ~HasKey(output_item, "content") THEN None
    ELSE LET content_list == output_item.v["content"] IN
         IF content_list = JNone
         THEN Some(Raised(ForeignError("TypeError",
                              "object of type 'NoneType' has no len()")))
         ELSE IF Len(content_list.v) > 0
         THEN LET content_item == content_list.v[1] IN
              IF HasKey(content_item, "text")
              THEN Some(Returned(content_item.v["text"])) ELSE None
         ELSE None

\* The third block of content: the text field.
TextField(self) ==
    LET text == self.v["text"] IN
    IF HasAttr(self, "text") /\ Truthy(text)
    THEN IF text.t = "str" THEN Some(text)
         ELSE IF text.t = "dict" /\ HasKey(text, "content")
         THEN Some(text.v["content"])
         ELSE None
    ELSE None

\* The fourth block of content: the choices attribute.
ChoicesContent(self) ==
    IF /\ HasAttr(self, "choices")
       /\ Truthy(self.v["choices"])
       /\ Len(self.v["choices"].v) > 0
    THEN Some(DictGet(DictGet(self.v["choices"].v[1], "message", JDict(EmptyDict)),
                      "content", JStr("")))
    ELSE None

\* ResponseResponse.content: what reading the property ends in.
content(self) ==
    LET output == self.v["output"]
        message == IF Truthy(output) /\ ScansForMessage(output.v)
                   THEN FirstMessageText(output.v, 1) ELSE None
        first == IF Truthy(output) /\ Len(output.v) > 0
                 THEN FirstItemText(output.v) ELSE None
        text == TextField(self)
        choices == ChoicesContent(self)
    IN IF ~IsNone(message) THEN Returned(TheValue(message))
       ELSE IF ~IsNone(first) THEN TheValue(first)
       ELSE IF ~IsNone(text) THEN Returned(TheValue(text))
       ELSE IF ~IsNone(choices) THEN Returned(TheValue(choices))
       ELSE Returned(JStr(""))

\* ToolCall(id=..., type=..., function=..., hosted_tool=...): id and type
\* are str, function and hosted_tool Optional[Dict]; None when pydantic
\* raises its ValidationError.
ToolCall_new(id, type, function, hosted_tool) ==
    IF \/ id.t # "str"
       \/ type.t # "str"
       \/ function.t \notin {"dict", "NoneType"}
       \/ hosted_tool.t \notin {"dict", "NoneType"}
    THEN None
    ELSE Some([t |-> "ToolCall",
               v |-> [id |-> id, type |-> type, function |-> function,
                      hosted_tool |-> hosted_tool]])

\* Only function_call entries become tool calls.
IsToolCallEntry_FunctionOnly(output_item) ==
    DictGet(output_item, "type", JNone) = JStr("function_call")

\* output_item.get('type') in ['web_search_call', 'function_call']
IsToolCallEntry(output_item) ==
    DictGet(output_item, "type", JNone)
        \in {JStr("web_search_call"), JStr("function_call")}

\* The loop of tool_calls from entry i on, with the list built so far: the
\* final list, or None when a ToolCall fails validation.
RECURSIVE CollectToolCalls(_, _, _)
CollectToolCalls(output, i, tool_calls_list) ==
    IF i > Len(output) THEN Some(tool_calls_list)
    ELSE IF IsToolCallEntry(output[i])
    THEN LET output_item == output[i]
             tool_call == ToolCall_new(
                 DictGet(output_item, "id", JStr("")),
                 DictGet(output_item, "type", JStr("")),
                 DictGet(output_item, "action", JDict(EmptyDict)),
                 DictGet(output_item, "action", JDict(EmptyDict)))
         IN IF IsNone(tool_call) THEN None
            ELSE CollectToolCalls(output, i + 1,
                                  Append(tool_calls_list, TheValue(tool_call)))
    ELSE CollectToolCalls(output, i + 1, tool_calls_list)

\* ResponseResponse.tool_calls: what reading the property ends in.
tool_calls(self) ==
    LET output == self.v["output"] IN
    IF ~Truthy(output) THEN Returned(JNone)
    ELSE LET collected == CollectToolCalls(output.v, 1, <<>>) IN
         IF IsNone(collected)
         THEN Raised(ForeignError("pydantic.ValidationError",
                                  "validation error for ToolCall"))
         ELSE IF Len(TheValue(collected)) > 0
         THEN Returned(JList(TheValue(collected)))
         ELSE Returned(JNone)

\* --------------------------------------------------------- caller's inputs

Omitted == [given |-> FALSE, value |-> None]
Given(v) == [given |-> TRUE, value |-> v]

TypeInputs == {None, Some(Str("email", {1})), Some(Lit("memo"))}
StyleInputs == {None, Some(Str("formal", {1})), Some(Lit("fancy"))}
ToneInputs == {None, Some(Lit("rude"))}

FieldInputs ==
    {FormatFields(ty, st, to, None) :
        ty \in TypeInputs, st \in StyleInputs, to \in ToneInputs}

\* A response_format argument is a dict, or a ResponseFormat object, which
\* only its constructor builds.
FormatInputs ==
    {[kind |-> "dict", fields |-> f] : f \in FieldInputs}
    \cup {[kind |-> "ResponseFormat", fields |-> TheValue(ResponseFormat_new(f))] :
            f \in {g \in FieldInputs : ~IsNone(ResponseFormat_new(g))}}

NoFormat == [kind |-> "none", fields |-> FormatFields(None, None, None, None)]

WeatherFunction ==
    [name |-> Some("get_weather"), description |-> Some("Get the weather"),
     parameters |-> Some(JDict([type |-> JStr("object")]))]

\* A tool argument is a dict, or a Tool object, which only its constructor
\* builds.
ToolInputs ==
    {[kind |-> "dict", fields |-> [type |-> Some("web_search_preview"),
                                   function |-> None]],
     [kind |-> "dict", fields |-> [type |-> Some("web_search"),
                                   function |-> None]],
     [kind |-> "Tool", fields |-> [type |-> Some("function"),
                                   function |-> Some(WeatherFunction)]]}

RECURSIVE SeqsUpTo(_, _)
SeqsUpTo(S, n) ==
    IF n = 0 THEN {<<>>}
    ELSE LET shorter == SeqsUpTo(S, n - 1) IN
         shorter \cup {Append(q, x) : q \in {r \in shorter : Len(r) = n - 1}, x \in S}

ToolsInputs == {None} \cup {Some(q) : q \in SeqsUpTo(ToolInputs, MaxTools)}

\* The generation arguments, in two dialects.
GenerationInputs ==
    {[model |-> None, temperature |-> JFloat(7), top_p |-> JNone,
      effort |-> JStr("high"), verbosity |-> JNone,
      tool_choice |-> JStr("auto"), previous_response_id |-> JNone],
     [model |-> Some(JStr("gpt-5")), temperature |-> JFloat(7), top_p |-> JNone,
      effort |-> JStr("high"), verbosity |-> JStr("low"),
      tool_choice |-> JNone, previous_response_id |-> JStr("resp_0")]}

Args(format, style, tone, tools, g) ==
    [prompt |-> JStr("Write to the team"),
     response_format |-> format,
     style |-> style, tone |-> tone, length |-> None,
     model |-> g.model, temperature |-> g.temperature, top_p |-> g.top_p,
     effort |-> g.effort, verbosity |-> g.verbosity,
     tools |-> tools, tool_choice |-> g.tool_choice,
     previous_response_id |-> g.previous_response_id]

NoArgs == Args(NoFormat, Omitted, Omitted, None, CHOOSE g \in GenerationInputs : IsNone(g.model))

GenerateInputs ==
    {Args(f, Omitted, Omitted, t, g) :
        f \in FormatInputs, t \in ToolsInputs, g \in GenerationInputs}

WrapperInputs ==
    {Args(NoFormat, st, to, t, g) :
        st \in {Omitted} \cup {Given(x) : x \in StyleInputs},
        to \in {Omitted} \cup {Given(x) : x \in ToneInputs},
        t \in ToolsInputs, g \in GenerationInputs}

\* A payload for a direct call of _make_request.
DirectData == JDict([model |-> DefaultModel, input |-> JStr("ping")])

\* -------------------------------------------------------------------- state

\* ------------------------------------------- the client object (client.py)

\* The argument counts unless it is None: api_key if api_key is not None
\* else the environment's value.
Client_new_NoneOnly(api_key, getenv) ==
    LET key == IF api_key # JNone THEN api_key ELSE getenv IN
    IF ~Truthy(key)
    THEN Raise(AuthenticationError("OpenAI API key is required."))
    ELSE Return([api_key |-> key,
                 Authorization |-> "Bearer " \o key.v,
                 pools |-> "empty",
                 close_calls |-> 0,
                 scope |-> "outside",
                 with_outcome |-> NoOutcome])

\* OpenAIResponsesAPI(api_key=...), where getenv is what
\* os.getenv("OPENAI_API_KEY") gives after load_dotenv(): the client, or the
\* AuthenticationError raised.  The session starts with no connection pool.
\* close_calls, scope and with_outcome are the caller's record of what it
\* did with the client: the close() calls made, where it stands relative to
\* a with block, and how the with statement ended.
Client_new(api_key, getenv) ==
    LET key == IF Truthy(api_key) THEN api_key ELSE getenv IN
    IF ~Truthy(key)
    THEN Raise(AuthenticationError("OpenAI API key is required. Set OPENAI_API_KEY environment variable or pass api_key parameter."))
    ELSE Return([api_key |-> key,
                 Authorization |-> "Bearer " \o key.v,
                 pools |-> "empty",
                 close_calls |-> 0,
                 scope |-> "outside",
                 with_outcome |-> NoOutcome])

\* close() leaves the connection pools as they are.
close_PoolsKept(self) ==
    [self EXCEPT !.close_calls = self.close_calls + 1]

\* close(): hasattr(self, 'session') holds for every constructed client;
\* session.close() clears the connection pools and sets no flag.
close(self) ==
    [self EXCEPT !.pools = "empty", !.close_calls = self.close_calls + 1]

\* ----------------------------------------------- the Streamlit page (app.py)

\* main: the keys it reads later are set when missing.
NewSessionState ==
    [conversation_history |-> <<>>, last_response |-> JNone, last_error |-> JNone]

\* No button has been pressed.
NoExchange ==
    [action |-> "none", called |-> FALSE, previous_response_id |-> JNone,
     result |-> "none", received_before |-> JNone, received |-> JNone,
     exchanges_before |-> 0]

VARIABLES
    max_retries,            \* self.max_retries
    json_error_is_request_exception,
                            \* the installed requests raises its own
                            \* JSONDecodeError (a RequestException)
    pc,                     \* "idle", "in_make_request", "done"
    caller,                 \* the operation the caller invoked
    args,                   \* its arguments
    data,                   \* the payload handed to _make_request
    attempt,                \* the loop variable of _make_request
    post_calls,             \* session.post invocations of this call
    replies,                \* what each session.post ended in
    sleeps,                 \* the time.sleep durations of this call, in order
    made,                   \* how _make_request ended
    outcome,                \* how the caller's operation ended
    reads,                  \* what reading each property of the returned
                            \* ResponseResponse ended in
    objects,                \* the constructor calls the caller made on its
                            \* own: for each, its input and its result
    client,                 \* the OpenAIResponsesAPI object, None before
                            \* it is constructed
    session_state,          \* st.session_state of the Streamlit page
    exchange                \* the last button pressed on the page: what
                            \* it supplied to the client, what the client
                            \* gave back, and what had been received and
                            \* kept before it was pressed

\* No property of the result has been read.
NotRead == [content |-> NoOutcome, tool_calls |-> NoOutcome]

vars ==
    <<max_retries, json_error_is_request_exception, pc, caller, args, data,
      attempt, post_calls, replies, sleeps, made, outcome, reads,
      objects, client, session_state, exchange>>

InitCall ==
    /\ json_error_is_request_exception \in BOOLEAN
    /\ pc = "idle"
    /\ caller = "none"
    /\ args = NoArgs
    /\ data = None
    /\ attempt = 0
    /\ post_calls = 0
    /\ replies = <<>>
    /\ sleeps = <<>>
    /\ made = NoOutcome
    /\ outcome = NoOutcome
    /\ reads = NotRead
    /\ objects = <<>>
    /\ client = Some(Client_new(JStr("sk-arg"), JNone).value)
    /\ session_state = NewSessionState
    /\ exchange = NoExchange

\* __init__ stores max_retries as given.
Init == max_retries \in -1..MaxRetriesFacade /\ InitCall

InitRequest == max_retries \in -1..MaxRetries /\ InitCall

\* ------------------------------------------------------------------ actions

\* The call enters _make_request with the payload d.
EnterMakeRequest(d) ==
    /\ pc' = "in_make_request"
    /\ data' = Some(d)
    /\ attempt' = 0
    /\ UNCHANGED <<post_calls, replies, sleeps, made, outcome>>

\* The call ends before _make_request with the exception e.
EndEarly(e) ==
    /\ pc' = "done"
    /\ outcome' = Raised(e)
    /\ UNCHANGED <<data, attempt, post_calls, replies, sleeps, made>>

\* generate_response(prompt, response_format, ...) up to the transport.
GenerateResponseBody(a) ==
    LET prepared == Prepare(a) IN
    IF prepared.kind = "raise"
    THEN EndEarly(FacadeExcept(prepared.exc))
    ELSE EnterMakeRequest(prepared.value)

GenerateResponse ==
    /\ pc = "idle"
    /\ \E a \in GenerateInputs :
        /\ caller' = "generate_response"
        /\ args' = a
        /\ GenerateResponseBody(a)
        /\ UNCHANGED <<session_state, exchange, client, objects, reads, max_retries, json_error_is_request_exception>>

\* A create_*_response wrapper: build the format, then generate_response.
CreateResponse(name, type, DefaultStyle, DefaultTone, a) ==
    LET format == WrapperFormat(type, DefaultStyle, DefaultTone, a) IN
    /\ caller' = name
    /\ args' = a
    /\ IF IsNone(format)
       THEN EndEarly(ForeignError("pydantic.ValidationError",
                                  "validation error for ResponseFormat"))
       ELSE GenerateResponseBody(
                [a EXCEPT !.response_format =
                    [kind |-> "ResponseFormat", fields |-> TheValue(format)]])
    /\ UNCHANGED <<session_state, exchange, client, objects, reads, max_retries, json_error_is_request_exception>>

CreateEmailResponse ==
    /\ pc = "idle"
    /\ \E a \in WrapperInputs :
        CreateResponse("create_email_response", "email", "professional",
                       "polite", a)

CreateLetterResponse ==
    /\ pc = "idle"
    /\ \E a \in WrapperInputs :
        CreateResponse("create_letter_response", "letter", "formal",
                       "polite", a)

CreateMessageResponse ==
    /\ pc = "idle"
    /\ \E a \in WrapperInputs :
        CreateResponse("create_message_response", "message", "casual",
                       "friendly", a)

\* _make_request(data) called on the client directly.
MakeRequest ==
    /\ pc = "idle"
    /\ caller' = "_make_request"
    /\ args' = NoArgs
    /\ EnterMakeRequest(DirectData)
    /\ UNCHANGED <<session_state, exchange, client, objects, reads, max_retries, json_error_is_request_exception>>

\* _make_request has ended with m: the caller's operation ends with it, or
\* generate_response goes on from it.
EndMakeRequest(m) ==
    /\ pc' = "done"
    /\ made' = m
    /\ outcome' = IF caller = "_make_request" THEN m ELSE AfterMakeRequest(m)

\* One iteration of the retry loop: one session.post, ending in reply.
Attempt ==
    /\ pc = "in_make_request"
    /\ attempt < max_retries + 1
    /\ \E reply \in PostOutcomes :
        LET step == Iteration(attempt, max_retries, reply,
                              json_error_is_request_exception) IN
        /\ post_calls' = post_calls + 1
        /\ replies' = Append(replies, reply)
        /\ IF step.kind = "continue"
           THEN /\ sleeps' = Append(sleeps, TheValue(step.slept))
                /\ attempt' = attempt + 1
                /\ UNCHANGED <<pc, made, outcome>>
           ELSE /\ EndMakeRequest(IF step.kind = "return"
                                  THEN Returned(step.value)
                                  ELSE Raised(step.exc))
                /\ UNCHANGED <<sleeps, attempt>>
        \* session.post opens a connection pool for the host
        /\ client' = Some([TheValue(client) EXCEPT !.pools = "host"])
        /\ UNCHANGED <<session_state, exchange, objects, reads, max_retries, json_error_is_request_exception, caller,
                       args, data>>

\* range(self.max_retries + 1) is used up: the statement after the loop.
LoopExhausted ==
    /\ pc = "in_make_request"
    /\ ~(attempt < max_retries + 1)
    /\ EndMakeRequest(IF AfterLoop.kind = "return"
                      THEN Returned(AfterLoop.value)
                      ELSE Raised(AfterLoop.exc))
    /\ UNCHANGED <<session_state, exchange, client, objects, reads, max_retries, json_error_is_request_exception, caller, args,
                   data, attempt, post_calls, replies, sleeps>>

Next ==
    \/ GenerateResponse
    \/ CreateEmailResponse
    \/ CreateLetterResponse
    \/ CreateMessageResponse
    \/ MakeRequest
    \/ Attempt
    \/ LoopExhausted

Spec == Init /\ [][Next]_vars

NextRequest ==
    \/ MakeRequest
    \/ Attempt
    \/ LoopExhausted

SpecRequest == InitRequest /\ [][NextRequest]_vars

\* ---------------------------------------------- properties of _make_request

IsStatus(reply, status) ==
    reply.kind = "response" /\ reply.status_code = status

IsNetworkFailure(reply) == reply.kind \in {"timeout", "connection_error"}

\* A Retry-After header as the wire contract has it: absent, or delay-seconds.
IsDelaySeconds(header) == IsNone(header) \/ AllDigits(TheValue(header))
DelaySeconds(header) ==
    IF IsNone(header) THEN 60 ELSE DigitsValue(TheValue(header))

RECURSIVE SumSeq(_)
SumSeq(q) == IF q = <<>> THEN 0 ELSE Head(q) + SumSeq(Tail(q))

\* The i-th session.post was the last one of the call, the call has ended,
\* and nothing was slept after it (one sleep lies between two attempts).
LastAttempt(i) ==
    /\ pc = "done"
    /\ Len(replies) = i
    /\ post_calls = i
    /\ Len(sleeps) = i - 1

\* C1: a 401 ends the call with AuthenticationError (status code 401): the
\* attempt that returned it is the last one, no sleep follows it, and when
\* it is the answer to the first attempt exactly one attempt was made and
\* nothing was slept, for every max_retries >= 0.
C1_UnauthorizedIsTerminal ==
    \A i \in 1..Len(replies) :
        (max_retries >= 0 /\ IsStatus(replies[i], StatusUnauthorized)) =>
            /\ LastAttempt(i)
            /\ made.kind = "raise"
            /\ made.exc.type = "AuthenticationError"
            /\ made.exc.status_code = Some(401)
            /\ (i = 1 => post_calls = 1 /\ sleeps = <<>>)

C1_Witness ==
    /\ pc = "done"
    /\ max_retries >= 2
    /\ Len(replies) = 1
    /\ IsStatus(replies[1], StatusUnauthorized)

C3_RetryAfterIsSlept ==
    /\ \A i \in 1..Len(replies) :
        (/\ IsStatus(replies[i], StatusTooManyRequests)
         /\ IsDelaySeconds(replies[i].retry_after)
         /\ i - 1 < max_retries) =>
            /\ Len(sleeps) >= i
            /\ sleeps[i] = DelaySeconds(replies[i].retry_after)
            /\ (i = Len(replies) =>
                    /\ pc = "in_make_request"
                    /\ attempt = i
                    /\ attempt < max_retries + 1)
    /\ (/\ Len(replies) = 2
        /\ replies[1] = HttpReply(429, Some(<<"1">>), EmptyBody)
        /\ IsStatus(replies[2], StatusOK)
        /\ JsonDecodes(replies[2].body)) =>
            /\ pc = "done"
            /\ made = Returned(replies[2].body.json)
            /\ post_calls = 2
            /\ sleeps = <<1>>
            /\ SumSeq(sleeps) >= 1

C3_Witness ==
    /\ pc = "done"
    /\ Len(replies) = 3
    /\ replies[1] = HttpReply(429, None, EmptyBody)
    /\ replies[2] = HttpReply(429, Some(<<"1">>), EmptyBody)
    /\ IsStatus(replies[3], StatusOK)
    /\ made.kind = "return"
    /\ sleeps = <<60, 1>>

\* C4 (as claimed): a status other than 200, 401, 402 and 429 ends the call
\* at that attempt with an APIError carrying the status code and the parsed
\* body, whatever the body is.
C4_OtherStatusIsTerminal ==
    \A i \in 1..Len(replies) :
        (/\ max_retries >= 0
         /\ replies[i].kind = "response"
         /\ replies[i].status_code \notin
                {StatusOK, StatusUnauthorized, StatusPaymentRequired,
                 StatusTooManyRequests}) =>
            /\ LastAttempt(i)
            /\ made.kind = "raise"
            /\ made.exc.type = "APIError"
            /\ made.exc.status_code = Some(replies[i].status_code)
            /\ (JsonDecodes(replies[i].body) =>
                    made.exc.response_data = replies[i].body.json)

\* C5: a timeout or connection failure with attempts remaining is followed
\* by a sleep of 2^attempt seconds (1 s at the first attempt) and the next
\* attempt; with none remaining the call ends with an APIError.  When every
\* attempt fails this way the call makes max_retries + 1 attempts and sleeps
\* 1, 2, 4, ... seconds between them.
C5_ExponentialBackoff ==
    /\ \A i \in 1..Len(replies) :
        (max_retries >= 0 /\ IsNetworkFailure(replies[i])) =>
            IF i - 1 < max_retries
            THEN /\ Len(sleeps) >= i
                 /\ sleeps[i] = 2 ^ (i - 1)
                 /\ (i = 1 => sleeps[i] = 1)
                 /\ (i = Len(replies) =>
                        /\ pc = "in_make_request"
                        /\ attempt = i
                        /\ attempt < max_retries + 1)
            ELSE /\ LastAttempt(i)
                 /\ made.kind = "raise"
                 /\ made.exc.type = "APIError"
    /\ (/\ max_retries >= 0
        /\ pc = "done"
        /\ \A i \in 1..Len(replies) : IsNetworkFailure(replies[i])) =>
            /\ post_calls = max_retries + 1
            /\ sleeps = [j \in 1..max_retries |-> 2 ^ (j - 1)]

C5_Witness ==
    /\ pc = "done"
    /\ max_retries = 3
    /\ \A i \in 1..Len(replies) : IsNetworkFailure(replies[i])
    /\ replies[1].kind = "timeout"
    /\ replies[2].kind = "connection_error"
    /\ sleeps = <<1, 2, 4>>
    /\ made.exc.type = "APIError"

\* C6: a 402 ends the call with QuotaExceededError (status code 402) at that
\* attempt: no sleep and no further attempt follow it, however many attempts
\* remain.
C6_PaymentRequiredIsTerminal ==
    \A i \in 1..Len(replies) :
        (max_retries >= 0 /\ IsStatus(replies[i], StatusPaymentRequired)) =>
            /\ LastAttempt(i)
            /\ made.kind = "raise"
            /\ made.exc.type = "QuotaExceededError"
            /\ made.exc.status_code = Some(402)

C6_Witness ==
    /\ pc = "done"
    /\ max_retries = 3
    /\ Len(replies) = 2
    /\ IsNetworkFailure(replies[1])
    /\ IsStatus(replies[2], StatusPaymentRequired)

FacadeOperations ==
    {"generate_response", "create_email_response", "create_letter_response",
     "create_message_response"}

OutsideSet(v, allowed) == ~IsNone(v) /\ Lower(TheValue(v)) \notin allowed

\* A response_format dict with a missing or unknown type, or an unknown
\* style or tone.
FormatInvalid(response_format) ==
    /\ response_format.kind = "dict"
    /\ \/ IsNone(response_format.fields.type)
       \/ OutsideSet(response_format.fields.type, valid_types)
       \/ OutsideSet(response_format.fields.style, valid_styles)
       \/ OutsideSet(response_format.fields.tone, valid_tones)

\* A style or tone argument of a wrapper outside the allowed set.
WrapperInvalid(a) ==
    \/ a.style.given /\ OutsideSet(a.style.value, valid_styles)
    \/ a.tone.given /\ OutsideSet(a.tone.value, valid_tones)

\* A tool list with a dict whose type is missing or not a tool type.
ToolsInvalid(tools) ==
    /\ ~IsNone(tools)
    /\ \E i \in 1..Len(TheValue(tools)) :
        LET tool == TheValue(tools)[i] IN
        /\ tool.kind = "dict"
        /\ \/ IsNone(tool.fields.type)
           \/ TheValue(tool.fields.type) \notin tool_valid_types

\* C8: a call of the facade whose response format has an invalid type, style
\* or tone, or whose tool list holds an invalid tool type, ends with an error
\* and without any HTTP attempt: _make_request is never entered.
C8_ValidationBeforeTransport ==
    (/\ caller \in FacadeOperations
     /\ \/ FormatInvalid(args.response_format)
        \/ WrapperInvalid(args)
        \/ ToolsInvalid(args.tools)) =>
        /\ pc = "done"
        /\ outcome.kind = "raise"
        /\ post_calls = 0
        /\ replies = <<>>
        /\ data = None
        /\ made = NoOutcome

C8_Witness ==
    /\ pc = "done"
    /\ caller = "generate_response"
    /\ args.response_format.kind = "dict"
    /\ args.response_format.fields.type = Some(Lit("memo"))
    /\ ~ToolsInvalid(args.tools)
    /\ outcome.kind = "raise"
    /\ post_calls = 0

\* C9 (as claimed): a response format that fails validation makes
\* generate_response raise the library's ValidationError.
C9_ValidationErrorReachesCaller ==
    (/\ pc = "done"
     /\ caller = "generate_response"
     /\ FormatInvalid(args.response_format)) =>
        /\ outcome.kind = "raise"
        /\ outcome.exc.type = "ValidationError"

\* C10 (as claimed): every call of generate_response or of a
\* create_*_response wrapper ends by returning a ResponseResponse or by
\* raising an error of the library.
C10_TwoBranchOutcome ==
    (pc = "done" /\ caller \in FacadeOperations) =>
        \/ outcome.kind = "return" /\ outcome.value.t = "ResponseResponse"
        \/ outcome.kind = "raise" /\ IsOpenAIResponsesError(outcome.exc)

\* --------------------------------------------------- the request builder

\* __init__(..., max_retries: int = 3)
DefaultMaxRetries == 3

BuilderModels == {None, Some(JStr("gpt-5")), Some(JStr("gpt-5-mini"))}

\* The generation arguments a caller may pass: each Optional argument absent,
\* empty or zero, and set.
BuilderGenerationInputs ==
    [model : BuilderModels,
     temperature : {JNone, JFloat(0), JFloat(7)},
     top_p : {JNone, JFloat(9)},
     effort : {JNone, JStr(""), JStr("high")},
     verbosity : {JNone, JStr("low")},
     tool_choice : {JNone, JDict(EmptyDict), JStr("auto")},
     previous_response_id : {JNone, JStr(""), JStr("resp_0")}]

\* A function descriptor given as a dict without a description.
UndescribedFunction ==
    [name |-> Some("get_weather"), description |-> None,
     parameters |-> Some(JDict([type |-> JStr("object")]))]

BuilderToolInputs ==
    ToolInputs
    \cup {[kind |-> "dict", fields |-> [type |-> Some("function"),
                                        function |-> None]],
          [kind |-> "dict", fields |-> [type |-> Some("function"),
                                        function |-> Some(UndescribedFunction)]]}

BuilderToolsInputs ==
    {None} \cup {Some(q) : q \in SeqsUpTo(BuilderToolInputs, MaxTools)}

BuilderFormatInputs ==
    {[kind |-> "dict",
      fields |-> FormatFields(Some(Str("email", {1})), None, None, None)],
     [kind |-> "ResponseFormat",
      fields |-> FormatFields(Some(Lit("note")), Some(Lit("casual")), None, None)]}

BuilderPrompts == {JStr(""), JStr("Write to the team")}

BuilderInputs ==
    {[Args(f, Omitted, Omitted, t, g) EXCEPT !.prompt = p] :
        f \in BuilderFormatInputs, t \in BuilderToolsInputs,
        g \in BuilderGenerationInputs, p \in BuilderPrompts}

InitBuilder == max_retries = DefaultMaxRetries /\ InitCall

\* generate_response(prompt, response_format, model, ...) up to the call of
\* _make_request, for every combination of its arguments.
BuildRequest ==
    /\ pc = "idle"
    /\ \E a \in BuilderInputs :
        /\ caller' = "generate_response"
        /\ args' = a
        /\ GenerateResponseBody(a)
        /\ UNCHANGED <<session_state, exchange, client, objects, reads, max_retries, json_error_is_request_exception>>

NextBuilder == BuildRequest

SpecBuilder == InitBuilder /\ [][NextBuilder]_vars

\* generate_response has handed its payload to _make_request.
Built == caller = "generate_response" /\ ~IsNone(data)

\* The payload handed to _make_request, as a function from its keys.
Payload == TheValue(data).v

\* C11: the payload built for model "gpt-5" has no temperature and no top_p
\* key, whatever the caller passed; the payload built for any other model
\* has no reasoning (effort) key and no verbosity key in its text block,
\* whatever the caller passed.
C11_OtherFamilyOmitted ==
    Built =>
        /\ ModelOf(args) = JStr("gpt-5") =>
              /\ "temperature" \notin DOMAIN Payload
              /\ "top_p" \notin DOMAIN Payload
        /\ ModelOf(args) # JStr("gpt-5") =>
              /\ "reasoning" \notin DOMAIN Payload
              /\ "effort" \notin DOMAIN Payload
              /\ "verbosity" \notin DOMAIN Payload
              /\ "verbosity" \notin DOMAIN Payload["text"].v

C11_Witness ==
    /\ Built
    /\ ModelOf(args) = JStr("gpt-5")
    /\ args.temperature = JFloat(7)
    /\ args.top_p = JFloat(9)
    /\ "reasoning" \in DOMAIN Payload
    /\ Payload["reasoning"] = JDict([effort |-> JStr("high")])
    /\ "temperature" \notin DOMAIN Payload

\* The payload carries a parameter of the reasoning family.
ReasoningPopulated ==
    "reasoning" \in DOMAIN Payload \/ "verbosity" \in DOMAIN Payload["text"].v

\* The payload carries a parameter of the classic family.
ClassicPopulated ==
    "temperature" \in DOMAIN Payload \/ "top_p" \in DOMAIN Payload

\* C12 (as claimed): every payload built by generate_response has exactly
\* one generation-parameter family populated, never both and never neither.
C12_ExactlyOneFamily ==
    Built => (ReasoningPopulated # ClassicPopulated)

\* C12 (amended): every payload built by generate_response has at most one
\* generation-parameter family populated, and only the family of its model:
\* the reasoning family iff the model is "gpt-5" and effort or verbosity is
\* non-empty, the classic family iff the model is another one and
\* temperature or top_p is not None; otherwise neither.
C12_AtMostOneFamily ==
    Built =>
        /\ ~(ReasoningPopulated /\ ClassicPopulated)
        /\ ReasoningPopulated <=>
              /\ ModelOf(args) = JStr("gpt-5")
              /\ Truthy(args.effort) \/ Truthy(args.verbosity)
        /\ ClassicPopulated <=>
              /\ ModelOf(args) # JStr("gpt-5")
              /\ args.temperature # JNone \/ args.top_p # JNone

\* The default model with neither temperature nor top_p: no family at all,
\* although the caller passed an effort.
C12_Witness ==
    /\ Built
    /\ IsNone(args.model)
    /\ args.temperature = JNone
    /\ args.top_p = JNone
    /\ args.effort = JStr("high")
    /\ ~ReasoningPopulated
    /\ ~ClassicPopulated

\* No key of the dict j is mapped to None.
NoNullValue(j) == \A k \in DOMAIN j.v : j.v[k] # JNone

\* No key of a serialized tool entry, or of its function descriptor, is
\* mapped to None.
NoNullInTools ==
    "tools" \in DOMAIN Payload =>
        \A i \in 1..Len(Payload["tools"].v) :
            LET entry == Payload["tools"].v[i] IN
            /\ NoNullValue(entry)
            /\ "function" \in DOMAIN entry.v => NoNullValue(entry.v["function"])

\* What C13 says of model, input, text, tools and null values.
RequiredShape ==
    /\ {"model", "input", "text"} \subseteq DOMAIN Payload
    /\ Payload["model"] = ModelOf(args)
    /\ Payload["input"] = args.prompt
    /\ "format" \in DOMAIN Payload["text"].v
    /\ Payload["text"].v["format"] = JDict([type |-> JStr("text")])
    /\ "tools" \in DOMAIN Payload <=>
          (~IsNone(args.tools) /\ Len(TheValue(args.tools)) > 0)
    /\ "tools" \in DOMAIN Payload =>
          Len(Payload["tools"].v) = Len(TheValue(args.tools))
    /\ "tool_choice" \in DOMAIN Payload =>
          Payload["tool_choice"] = args.tool_choice
    /\ "previous_response_id" \in DOMAIN Payload =>
          Payload["previous_response_id"] = args.previous_response_id
    /\ NoNullValue(TheValue(data))
    /\ NoNullValue(Payload["text"])
    /\ NoNullInTools

MaxOutput == 2

MessageWith(s) ==
    JDict([type |-> JStr("message"),
           content |-> JList(<<JDict([type |-> JStr("output_text"),
                                      text |-> JStr(s)])>>)])

\* The entries an output list is made of.
OutputItems ==
    {JDict([type |-> JStr("function_call"), id |-> JStr("tc1"),
            action |-> JDict([name |-> JStr("get_weather")])]),
     JDict([type |-> JStr("web_search_call"), id |-> JStr("ws1")]),
     JDict([type |-> JStr("reasoning"), id |-> JStr("rs1")]),
     MessageWith("it is sunny"),
     MessageWith("hello"),
     JDict([type |-> JStr("message")]),
     JDict([type |-> JStr("message"), content |-> JNone]),
     JDict([type |-> JStr("message"), content |-> JList(<<>>)]),
     JDict([type |-> JStr("message"),
            content |-> JList(<<JDict([type |-> JStr("refusal")])>>)]),
     JDict([content |-> JList(<<JDict([text |-> JStr("legacy")])>>)])}

OutputInputs == {None} \cup {Some(q) : q \in SeqsUpTo(OutputItems, MaxOutput)}

\* The text key of a reply: missing, a string, an object with a content key,
\* an object without one.
TextInputs ==
    {None, Some(JStr("plain text")),
     Some(JDict([content |-> JStr("text content")])),
     Some(JDict([format |-> JStr("text")]))}

ChoicesInputs ==
    {None,
     Some(JList(<<JDict([message |->
                           JDict([content |-> JStr("from choices")])])>>))}

\* The raw reply with the keys that are given.
RawReply(output, text, choices) ==
    LET keys == {"id"}
                \cup (IF IsNone(output) THEN {} ELSE {"output"})
                \cup (IF IsNone(text) THEN {} ELSE {"text"})
                \cup (IF IsNone(choices) THEN {} ELSE {"choices"})
    IN JDict([k \in keys |->
                 CASE k = "id" -> JStr("resp_1")
                   [] k = "output" -> JList(TheValue(output))
                   [] k = "text" -> TheValue(text)
                   [] k = "choices" -> TheValue(choices)])

RawReplies ==
    {RawReply(o, t, c) : o \in OutputInputs, t \in TextInputs, c \in ChoicesInputs}

\* generate_response from the return of _make_request on: the raw reply is
\* decoded into a ResponseResponse.
DecodeReply ==
    /\ pc = "idle"
    /\ \E raw \in RawReplies :
        /\ caller' = "generate_response"
        /\ pc' = "done"
        /\ made' = Returned(raw)
        /\ outcome' = AfterMakeRequest(Returned(raw))
        /\ UNCHANGED <<session_state, exchange, client, objects, reads, max_retries, json_error_is_request_exception,
                       args, data, attempt, post_calls, replies, sleeps>>

\* The caller reads response.content.
ReadContent ==
    /\ pc = "done"
    /\ outcome.kind = "return"
    /\ outcome.value.t = "ResponseResponse"
    /\ reads.content = NoOutcome
    /\ reads' = [reads EXCEPT !.content = content(outcome.value)]
    /\ UNCHANGED <<session_state, exchange, client, objects, max_retries, json_error_is_request_exception, pc, caller,
                   args, data, attempt, post_calls, replies, sleeps, made,
                   outcome>>

\* The caller reads response.tool_calls.
ReadToolCalls ==
    /\ pc = "done"
    /\ outcome.kind = "return"
    /\ outcome.value.t = "ResponseResponse"
    /\ reads.tool_calls = NoOutcome
    /\ reads' = [reads EXCEPT !.tool_calls = tool_calls(outcome.value)]
    /\ UNCHANGED <<session_state, exchange, client, objects, max_retries, json_error_is_request_exception, pc, caller,
                   args, data, attempt, post_calls, replies, sleeps, made,
                   outcome>>

NextDecoder ==
    \/ DecodeReply
    \/ ReadContent
    \/ ReadToolCalls

SpecDecoder == InitBuilder /\ [][NextDecoder]_vars

\* The raw reply that was decoded, and its output list (empty when the key
\* is missing).
Raw == made.value

RawOutput == IF HasKey(Raw, "output") THEN Raw.v["output"].v ELSE <<>>

ContentRead == reads.content # NoOutcome

\* The first text of a message entry: the text of its first content item,
\* when it has one.
HasFirstText(item) ==
    /\ HasKey(item, "content")
    /\ item.v["content"].t = "list"
    /\ Len(item.v["content"].v) > 0
    /\ HasKey(item.v["content"].v[1], "text")

FirstText(item) == item.v["content"].v[1].v["text"]

IsMessage(item) == HasKey(item, "type") /\ item.v["type"] = JStr("message")

\* C14: when the output list of the reply holds an entry of type "message",
\* at any position, content is the text of the first content item of the
\* first such entry (for a first message entry that has such a text), also
\* when tool-call entries precede it.
C14_MessageFoundAnywhere ==
    ContentRead =>
        \A i \in 1..Len(RawOutput) :
            (/\ IsMessage(RawOutput[i])
             /\ \A j \in 1..(i - 1) : ~IsMessage(RawOutput[j])
             /\ HasFirstText(RawOutput[i])) =>
                reads.content = Returned(FirstText(RawOutput[i]))

\* A function call precedes the message.
C14_Witness ==
    /\ ContentRead
    /\ Len(RawOutput) = 2
    /\ DictGet(RawOutput[1], "type", JNone) = JStr("function_call")
    /\ RawOutput[2] = MessageWith("it is sunny")
    /\ reads.content = Returned(JStr("it is sunny"))

\* The four sources of content, as read off the raw reply; None when the
\* source yields nothing.

\* (1) the text of a message entry of the output, from entry i on
RECURSIVE MessageSource(_)
MessageSource(i) ==
    IF i > Len(RawOutput) THEN None
    ELSE IF IsMessage(RawOutput[i]) /\ HasFirstText(RawOutput[i])
    THEN Some(FirstText(RawOutput[i]))
    ELSE MessageSource(i + 1)

\* (2) the text of the first content item of output[0]
FirstItemSource ==
    IF Len(RawOutput) > 0 /\ HasFirstText(RawOutput[1])
    THEN Some(FirstText(RawOutput[1])) ELSE None

\* (3) the top-level text: the string, or the content key of the object
TextSource ==
    IF ~HasKey(Raw, "text") THEN None
    ELSE IF Raw.v["text"].t = "str" THEN Some(Raw.v["text"])
    ELSE IF Raw.v["text"].t = "dict" /\ HasKey(Raw.v["text"], "content")
    THEN Some(Raw.v["text"].v["content"])
    ELSE None

\* (4) choices[0].message.content
ChoicesSource ==
    IF /\ HasKey(Raw, "choices")
       /\ Len(Raw.v["choices"].v) > 0
       /\ HasKey(Raw.v["choices"].v[1], "message")
       /\ HasKey(Raw.v["choices"].v[1].v["message"], "content")
    THEN Some(Raw.v["choices"].v[1].v["message"].v["content"])
    ELSE None

\* The first of the four sources that yields something.
FirstSource ==
    IF ~IsNone(MessageSource(1)) THEN MessageSource(1)
    ELSE IF ~IsNone(FirstItemSource) THEN FirstItemSource
    ELSE IF ~IsNone(TextSource) THEN TextSource
    ELSE ChoicesSource

\* C15 (as claimed): content is the first successful extraction in the
\* order (1) message entry text, (2) text of output[0]'s first content item,
\* (3) top-level text, (4) choices[0].message.content; a lower source is
\* used exactly when every higher one yields nothing.
C15_FixedPriority ==
    (ContentRead /\ ~IsNone(FirstSource)) =>
        reads.content = Returned(TheValue(FirstSource))

\* The order of C15 over its first three sources alone, for replies whose
\* output[0] has no null content: this part of the order holds.
PriorityOverOutputAndText ==
    (/\ ContentRead
     /\ ~(Len(RawOutput) > 0 /\ HasKey(RawOutput[1], "content")
          /\ RawOutput[1].v["content"] = JNone)
     /\ ~(IsNone(MessageSource(1)) /\ IsNone(FirstItemSource) /\ IsNone(TextSource))) =>
        reads.content = Returned(TheValue(FirstSource))

\* C16 (as claimed): reading content of a decoded reply never raises, and
\* when no output shape matches (output absent or empty, entries without
\* content, content empty or null, content item without text) and there is
\* no other source, content is the empty string.
C16_ContentNeverRaises ==
    ContentRead =>
        /\ reads.content.kind = "return"
        /\ IsNone(FirstSource) => reads.content = Returned(JStr(""))

\* C17 (as claimed): for a raw reply with no usable output and no text key
\* that carries choices[0].message.content = s, content is s.
C17_ChoicesFallback ==
    (/\ ContentRead
     /\ IsNone(MessageSource(1))
     /\ IsNone(FirstItemSource)
     /\ ~HasKey(Raw, "text")
     /\ ~IsNone(ChoicesSource)) =>
        reads.content = Returned(TheValue(ChoicesSource))

ToolCallsRead == reads.tool_calls # NoOutcome

\* An output entry of type web_search_call or function_call.
IsCallEntry(item) ==
    /\ HasKey(item, "type")
    /\ item.v["type"].v \in {"web_search_call", "function_call"}

\* The action of an entry; the empty dict for an entry without one.
ActionOf(item) ==
    IF HasKey(item, "action") THEN item.v["action"] ELSE JDict(EmptyDict)

\* C18: tool_calls holds exactly one ToolCall per output entry of type
\* web_search_call or function_call, in the order of the entries, each with
\* the id and type of its entry and with function and hosted_tool both equal
\* to the action of its entry; entries of other types add nothing, and the
\* result is None when there is no such entry or no output.
C18_ToolCallsMirrorEntries ==
    ToolCallsRead =>
        LET entries == SelectSeq(RawOutput, IsCallEntry)
            result == reads.tool_calls
        IN IF Len(entries) = 0 THEN result = Returned(JNone)
           ELSE /\ result.kind = "return"
                /\ result.value.t = "list"
                /\ Len(result.value.v) = Len(entries)
                /\ \A i \in 1..Len(entries) :
                     LET call == result.value.v[i].v IN
                     /\ call.id = entries[i].v["id"]
                     /\ call.type = entries[i].v["type"]
                     /\ call.function = ActionOf(entries[i])
                     /\ call.hosted_tool = ActionOf(entries[i])

\* A web search call and then a function call: two ToolCalls in that order.
C18_Witness ==
    /\ ToolCallsRead
    /\ Len(RawOutput) = 2
    /\ reads.tool_calls.kind = "return"
    /\ reads.tool_calls.value.t = "list"
    /\ Len(reads.tool_calls.value.v) = 2
    /\ reads.tool_calls.value.v[1].v.type = JStr("web_search_call")
    /\ reads.tool_calls.value.v[2].v.id = JStr("tc1")
    /\ reads.tool_calls.value.v[2].v.function = JDict([name |-> JStr("get_weather")])

\* ------------------------------------------ the constructors of models.py

\* The type of a tool: the eight valid ones, an unknown one, a valid one in
\* another letter case.
ToolTypeInputs == tool_valid_types \cup {"web_search", "Function"}

\* No function, a full descriptor, one without a description, one without
\* its required name.
ToolFunctionInputs ==
    {None, Some(WeatherFunction), Some(UndescribedFunction),
     Some([UndescribedFunction EXCEPT !.name = None])}

\* One constructor call: the class, the operation that made the call, its
\* input and its result (None when it raised).
Constructed(cls, via, input, result) ==
    [cls |-> cls, via |-> via, input |-> input, result |-> result]

\* All but the objects variable.
callVars ==
    <<max_retries, json_error_is_request_exception, pc, caller, args, data,
      attempt, post_calls, replies, sleeps, made, outcome, reads, client,
      session_state, exchange>>

\* Tool(type=..., function=...), also what generate_response does with a
\* tool given as a dict.
NewTool ==
    /\ pc = "idle"
    /\ objects = <<>>
    /\ \E type \in {None} \cup {Some(t) : t \in ToolTypeInputs},
          function \in ToolFunctionInputs :
        LET fields == [type |-> type, function |-> function] IN
        objects' = <<Constructed("Tool", "Tool", fields, Tool_new(fields))>>
    /\ UNCHANGED callVars

CreateFunctionTool ==
    /\ pc = "idle"
    /\ objects = <<>>
    /\ \E description \in {None, Some("Get the weather")},
          parameters \in {JDict([type |-> JStr("object")]), JStr("object")} :
        LET fields == [type |-> Some("function"),
                       function |-> Some([name |-> Some("get_weather"),
                                          description |-> description,
                                          parameters |-> Some(parameters)])]
        IN objects' = <<Constructed("Tool", "create_function_tool", fields,
                            create_function_tool(Some("get_weather"), description,
                                                 Some(parameters)))>>
    /\ UNCHANGED callVars

CreateHostedTool ==
    /\ pc = "idle"
    /\ objects = <<>>
    /\ \E hosted_tool_id \in ToolTypeInputs :
        objects' = <<Constructed("Tool", "create_hosted_tool",
                                 [type |-> Some(hosted_tool_id), function |-> None],
                                 create_hosted_tool(hosted_tool_id))>>
    /\ UNCHANGED callVars

\* The Tool values that passed validation.
ValidatedTools ==
    {TheValue(objects[i].result) :
        i \in {j \in 1..Len(objects) :
                 objects[j].cls = "Tool" /\ ~IsNone(objects[j].result)}}

\* C19 (as claimed): every Tool that passes validation, built directly or by
\* create_function_tool / create_hosted_tool, has a type of the fixed
\* enumeration and, when its type is "function", a function descriptor; a
\* Tool of type "function" without a function is rejected.
C19_FunctionToolHasFunction ==
    \A tool \in ValidatedTools :
        /\ TheValue(tool.type) \in
              {"function", "code_interpreter", "file_search",
               "web_search_preview", "web_search_preview_2025_03_11",
               "image_generation", "mcp", "computer_use_preview"}
        /\ TheValue(tool.type) = "function" => ~IsNone(tool.function)

\* The fields of a response format in several letter cases: valid, unknown,
\* missing.
CaseFormatInputs ==
    [type : {None, Some(Lit("email")), Some(Str("email", {1})),
             Some(Str("note", {1, 2, 3, 4})), Some(Lit("memo")),
             Some(Str("memo", {1}))},
     style : {None, Some(Lit("casual")), Some(Str("formal", {1})),
              Some(Str("fancy", {1}))},
     tone : {None, Some(Lit("neutral")), Some(Str("polite", {1, 2, 3, 4, 5, 6})),
             Some(Lit("rude"))},
     length : {None, Some(Str("short", {1}))}]

\* ResponseFormat(type=..., style=..., tone=..., length=...)
NewResponseFormat ==
    /\ pc = "idle"
    /\ objects = <<>>
    /\ \E fields \in CaseFormatInputs :
        objects' = <<Constructed("ResponseFormat", "ResponseFormat", fields,
                                 ResponseFormat_new(fields))>>
    /\ UNCHANGED callVars

\* The validated format is validated again: ResponseFormat(**fields of it).
Revalidate ==
    /\ pc = "idle"
    /\ Len(objects) = 1
    /\ objects[1].cls = "ResponseFormat"
    /\ ~IsNone(objects[1].result)
    /\ LET fields == TheValue(objects[1].result) IN
       objects' = Append(objects,
                         Constructed("ResponseFormat", "ResponseFormat", fields,
                                     ResponseFormat_new(fields)))
    /\ UNCHANGED callVars

NextModels ==
    \/ NewTool
    \/ CreateFunctionTool
    \/ CreateHostedTool
    \/ NewResponseFormat
    \/ Revalidate

SpecModels == InitBuilder /\ [][NextModels]_vars

\* The string is written in lower case.
IsLowercase(s) == s.upper = {}

\* An optional string is None or in lower case.
IsLowercaseOrNone(o) == IsNone(o) \/ IsLowercase(TheValue(o))

\* C20: a ResponseFormat input is rejected when its type, style or tone in
\* lower case is outside the allowed set; an accepted input, in any letter
\* case, gives a format whose type, style and tone are the input's in lower
\* case, and validating that format again returns it unchanged.
C20_LowercaseIdempotent ==
    \A i \in 1..Len(objects) :
        objects[i].cls = "ResponseFormat" =>
            LET input == objects[i].input
                result == objects[i].result
            IN /\ (\/ OutsideSet(input.type, valid_types)
                   \/ OutsideSet(input.style, valid_styles)
                   \/ OutsideSet(input.tone, valid_tones)) => IsNone(result)
               /\ ~IsNone(result) =>
                    /\ IsLowercaseOrNone(TheValue(result).type)
                    /\ IsLowercaseOrNone(TheValue(result).style)
                    /\ IsLowercaseOrNone(TheValue(result).tone)
                    /\ TheValue(TheValue(result).type).base = TheValue(input.type).base
                    /\ \A f \in {"style", "tone"} :
                         IF IsNone(input[f]) THEN IsNone(TheValue(result)[f])
                         ELSE TheValue(TheValue(result)[f]).base = TheValue(input[f]).base
               /\ i = 2 => result = Some(input)

\* "Email" / "Formal" / "POLITE" was accepted, its validated form is in lower
\* case and was validated again.
C20_Witness ==
    /\ Len(objects) = 2
    /\ objects[1].input.type = Some(Str("email", {1}))
    /\ objects[1].input.style = Some(Str("formal", {1}))
    /\ objects[1].input.tone = Some(Str("polite", {1, 2, 3, 4, 5, 6}))
    /\ objects[1].result # Some(objects[1].input)
    /\ objects[2].result = objects[1].result

\* ------------------------------------------------- wrappers and the facade

Wrappers ==
    {"create_email_response", "create_letter_response", "create_message_response"}

\* The format type a wrapper stands for, and the style and tone of its
\* signature.
WrapperType(name) ==
    CASE name = "create_email_response" -> "email"
      [] name = "create_letter_response" -> "letter"
      [] name = "create_message_response" -> "message"

WrapperStyle(name) ==
    CASE name = "create_email_response" -> "professional"
      [] name = "create_letter_response" -> "formal"
      [] name = "create_message_response" -> "casual"

WrapperTone(name) ==
    IF name = "create_message_response" THEN "friendly" ELSE "polite"

\* The arguments of the generate_response call a wrapper call stands for:
\* the format given as a mapping with the wrapper's type, the other
\* arguments as they are.
EquivalentCall ==
    [args EXCEPT
        !.response_format =
            [kind |-> "dict",
             fields |-> FormatFields(
                 Some(Lit(WrapperType(caller))),
                 IF args.style.given THEN args.style.value
                 ELSE Some(Lit(WrapperStyle(caller))),
                 IF args.tone.given THEN args.tone.value
                 ELSE Some(Lit(WrapperTone(caller))),
                 args.length)],
        !.style = Omitted,
        !.tone = Omitted]

\* The wrapper call went as the generate_response call it stands for would:
\* the same error before the transport, or the same payload sent and, for the
\* same replies, the same result or error.
SameAsGenerateResponse ==
    LET prepared == Prepare(EquivalentCall) IN
    IF prepared.kind = "raise"
    THEN /\ pc = "done"
         /\ IsNone(data)
         /\ outcome = Raised(FacadeExcept(prepared.exc))
    ELSE /\ data = Some(prepared.value)
         /\ pc = "done" => outcome = AfterMakeRequest(made)

\* C21 (as claimed): a call of create_email_response, create_letter_response
\* or create_message_response sends the same payload and ends in the same
\* result or the same error as generate_response with format type email,
\* letter or message and every other argument forwarded unchanged.
C21_WrapperEquivalence ==
    (caller \in Wrappers /\ pc # "idle") => SameAsGenerateResponse

\* The equivalence of C21 for the calls whose style and tone are valid: this
\* part holds.
WrapperEquivalenceOnValid ==
    (caller \in Wrappers /\ pc # "idle" /\ ~WrapperInvalid(args)) =>
        SameAsGenerateResponse

\* ------------------------------------------------ the end of _make_request

\* Every attempt of the call was followed by a sleep and a new iteration:
\* none returned, none raised.
EveryAttemptContinued == Len(sleeps) = post_calls

\* C24: when the loop of _make_request has used up its attempts without one
\* of them returning or raising, the call raises the generic APIError
\* ("Request failed after all retries"); a call never ends by falling out of
\* the loop with None or another value: it returns only the body of a 200.
C24_ExhaustionRaises ==
    (pc = "done" /\ caller = "_make_request") =>
        /\ made.kind \in {"return", "raise"}
        /\ EveryAttemptContinued =>
              /\ made.kind = "raise"
              /\ made.exc.type = "APIError"
              /\ made.exc.message = "Request failed after all retries"
              /\ made.exc.status_code = None
        /\ made.kind = "return" =>
              /\ post_calls >= 1
              /\ IsStatus(replies[post_calls], StatusOK)

\* range(max_retries + 1) is empty for max_retries = -1: the loop is used up
\* at once, without an attempt.
C24_Witness ==
    /\ pc = "done"
    /\ caller = "_make_request"
    /\ EveryAttemptContinued
    /\ post_calls = 0
    /\ max_retries = -1
    /\ made.exc.message = "Request failed after all retries"

\* C26: an AuthenticationError, QuotaExceededError, RateLimitError or APIError
\* raised by _make_request leaves generate_response (and the wrappers) as it
\* is: same type, same status code (401, 402, 429 or the HTTP status), same
\* message; it is never rewrapped as an "Unexpected error" APIError.
C26_LibraryErrorPassesThrough ==
    (/\ pc = "done"
     /\ caller \in FacadeOperations
     /\ made.kind = "raise"
     /\ made.exc.type \in
           {"AuthenticationError", "QuotaExceededError", "RateLimitError", "APIError"}) =>
        /\ outcome.kind = "raise"
        /\ outcome.exc.type = made.exc.type
        /\ outcome.exc.status_code = made.exc.status_code
        /\ outcome.exc = made.exc

\* A 500 with an error message in its body: the APIError carries the status.
C26_Witness ==
    /\ pc = "done"
    /\ caller = "generate_response"
    /\ made.kind = "raise"
    /\ made.exc.type = "APIError"
    /\ made.exc.status_code = Some(500)
    /\ outcome = made

\* Every started iteration ends (session.post has a timeout, time.sleep is
\* finite) and the loop goes on until the call has ended.
SpecRequestFair == SpecRequest /\ WF_vars(NextRequest)

\* C27: for every max_retries >= 0 and every sequence of outcomes of the
\* attempts, one call of _make_request makes at least 1 and at most
\* max_retries + 1 HTTP attempts, with at most max_retries retries in all
\* (those after a 429 and those after a network failure together), and then
\* ends by returning or raising.
C27_AttemptBudget ==
    /\ [](max_retries >= 0 =>
            /\ post_calls <= max_retries + 1
            /\ Len(sleeps) <= max_retries
            /\ pc = "done" =>
                  /\ post_calls >= 1
                  /\ made.kind \in {"return", "raise"})
    /\ (max_retries >= 0 => <>(pc = "done"))

\* Three attempts for max_retries = 2: a 429, a timeout, a connection failure.
C27_Witness ==
    /\ pc = "done"
    /\ max_retries = 2
    /\ post_calls = 3
    /\ IsStatus(replies[1], StatusTooManyRequests)
    /\ replies[2].kind = "timeout"
    /\ replies[3].kind = "connection_error"
    /\ made.kind = "raise"

\* The call used its whole budget on 429 responses and network failures.
BudgetExhaustedOnRetryables ==
    /\ pc = "done"
    /\ max_retries >= 0
    /\ post_calls = max_retries + 1
    /\ Len(replies) = post_calls
    /\ \A i \in 1..Len(replies) :
          IsStatus(replies[i], StatusTooManyRequests) \/ IsNetworkFailure(replies[i])

\* C30: when the attempt budget is used up on a mix of 429 responses and
\* network failures, the error raised depends on the last attempt alone:
\* RateLimitError (429) when it returned 429, an APIError that is not a
\* RateLimitError when it was a timeout or a connection failure, whatever the
\* earlier attempts returned.
C30_LastAttemptDecides ==
    BudgetExhaustedOnRetryables =>
        /\ made.kind = "raise"
        /\ IsStatus(replies[post_calls], StatusTooManyRequests) =>
              /\ made.exc.type = "RateLimitError"
              /\ made.exc.status_code = Some(429)
        /\ IsNetworkFailure(replies[post_calls]) =>
              /\ made.exc.type = "APIError"
              /\ made.exc.status_code = None

\* Two 429 responses and then a timeout: APIError, not RateLimitError.
C30_Witness ==
    /\ BudgetExhaustedOnRetryables
    /\ max_retries = 2
    /\ IsStatus(replies[1], StatusTooManyRequests)
    /\ IsStatus(replies[2], StatusTooManyRequests)
    /\ replies[3].kind = "timeout"
    /\ made.exc.type = "APIError"

\* A valid format: type t, and style, tone and length set or left out.
PayloadFormat(kind, t, s, o, l, language, custom_fields) ==
    [kind |-> kind,
     fields |-> [type |-> Some(t),
                 style |-> IF s THEN Some(Lit("formal")) ELSE None,
                 tone |-> IF o THEN Some(Lit("assertive")) ELSE None,
                 length |-> IF l THEN Some(Lit("short")) ELSE None,
                 language |-> language, custom_fields |-> custom_fields]]

\* Valid formats: as a dictionary, another type with no optional field,
\* with each of style, tone, length, language and custom_fields changed
\* alone and with all of them changed; as a ResponseFormat, that type with
\* every field changed; and a third type both ways.
PayloadFormats ==
    {PayloadFormat("dict", Lit("letter"), FALSE, FALSE, FALSE, Lit("en"), JNone),
     PayloadFormat("dict", Lit("letter"), TRUE, FALSE, FALSE, Lit("en"), JNone),
     PayloadFormat("dict", Lit("letter"), FALSE, TRUE, FALSE, Lit("en"), JNone),
     PayloadFormat("dict", Lit("letter"), FALSE, FALSE, TRUE, Lit("en"), JNone),
     PayloadFormat("dict", Lit("letter"), FALSE, FALSE, FALSE, Lit("es"), JNone),
     PayloadFormat("dict", Lit("letter"), FALSE, FALSE, FALSE, Lit("en"),
                   JDict([signature |-> JStr("The team")]))}
    \cup {PayloadFormat(k, Lit("letter"), TRUE, TRUE, TRUE, Lit("es"),
                        JDict([signature |-> JStr("The team")])) :
             k \in {"dict", "ResponseFormat"}}
    \cup {PayloadFormat(k, Lit("note"), FALSE, FALSE, FALSE, Lit("en"), JNone) :
             k \in {"dict", "ResponseFormat"}}

\* C28: the payload does not depend on the response format: the call made
\* and the same call with any other valid format (another type, style, tone,
\* length, language or custom_fields) hand the same payload to the transport.
C28_PayloadIgnoresFormat ==
    Built =>
        \A f \in PayloadFormats :
            Prepare([args EXCEPT !.response_format = f]) = Return(TheValue(data))

\* A payload was built for an email format given as a dictionary, and a
\* letter format with every field set gives the same one.
C28_Witness ==
    /\ Built
    /\ args.response_format.kind = "dict"
    /\ args.response_format.fields.type = Some(Str("email", {1}))
    /\ Payload["text"].v["format"] = JDict([type |-> JStr("text")])
    /\ \E f \in PayloadFormats :
          /\ f.kind = "ResponseFormat"
          /\ f.fields.type = Some(Lit("letter"))
          /\ f.fields.style # None /\ f.fields.tone # None
          /\ f.fields.length # None /\ f.fields.language = Lit("es")
          /\ f.fields.custom_fields # JNone
          /\ Prepare([args EXCEPT !.response_format = f]).kind = "return"

\* ------------------------------------------------ the life of a client object

MaxCloses == 2

\* The api_key argument: left out, empty, or a key.
KeyInputs == {JNone, JStr(""), JStr("sk-arg")}
\* OPENAI_API_KEY in the process environment: unset, empty, or a key.
EnvironInputs == {JNone, JStr(""), JStr("sk-env")}
\* OPENAI_API_KEY in the .env file: no entry, or a key.
DotenvInputs == {JNone, JStr("sk-dotenv")}

\* The calls made on the client: a valid format and an unknown type.
ClientCallInputs ==
    {Args([kind |-> "dict", fields |-> FormatFields(Some(Lit(t)), None, None, None)],
          Omitted, Omitted, None, CHOOSE g \in GenerationInputs : IsNone(g.model)) :
        t \in {"email", "poem"}}

\* No client yet.  max_retries is given as -1 or 0: the lifecycle does not
\* depend on the number of retries.
InitClient ==
    /\ max_retries \in {-1, 0}
    /\ json_error_is_request_exception \in BOOLEAN
    /\ pc = "idle"
    /\ caller = "none"
    /\ args = NoArgs
    /\ data = None
    /\ attempt = 0
    /\ post_calls = 0
    /\ replies = <<>>
    /\ sleeps = <<>>
    /\ made = NoOutcome
    /\ outcome = NoOutcome
    /\ reads = NotRead
    /\ objects = <<>>
    /\ client = None
    /\ session_state = NewSessionState
    /\ exchange = NoExchange

\* OpenAIResponsesAPI(api_key=api_key): load_dotenv() sets the variable from
\* the .env file when the environment does not have it, then __init__ reads
\* it.
Construct ==
    /\ pc = "idle"
    /\ IsNone(client)
    /\ \E api_key \in KeyInputs, environ \in EnvironInputs, dotenv \in DotenvInputs :
        LET getenv == IF environ # JNone THEN environ ELSE dotenv
            built == Client_new(api_key, getenv)
        IN /\ caller' = "__init__"
           /\ args' = [api_key |-> api_key, getenv |-> getenv]
           /\ pc' = "done"
           /\ IF built.kind = "raise"
              THEN outcome' = Raised(built.exc) /\ client' = None
              ELSE outcome' = Returned(JNone) /\ client' = Some(built.value)
    /\ UNCHANGED <<session_state, exchange, objects, reads, max_retries, json_error_is_request_exception,
                   data, attempt, post_calls, replies, sleeps, made>>

\* generate_response called on the constructed client.
ClientGenerate ==
    /\ pc = "idle"
    /\ ~IsNone(client)
    /\ \E a \in ClientCallInputs :
        /\ caller' = "generate_response"
        /\ args' = a
        /\ GenerateResponseBody(a)
    /\ UNCHANGED <<session_state, exchange, client, objects, reads, max_retries, json_error_is_request_exception>>

\* client.close()
Close ==
    /\ pc = "idle"
    /\ ~IsNone(client)
    /\ TheValue(client).close_calls < MaxCloses
    /\ client' = Some(close(TheValue(client)))
    /\ caller' = "close"
    /\ args' = NoArgs
    /\ pc' = "done"
    /\ outcome' = Returned(JNone)
    /\ UNCHANGED <<session_state, exchange, objects, reads, max_retries, json_error_is_request_exception,
                   data, attempt, post_calls, replies, sleeps, made>>

\* with client as c: __enter__ returns self.
EnterWith ==
    /\ pc = "idle"
    /\ ~IsNone(client)
    /\ TheValue(client).scope = "outside"
    /\ client' = Some([TheValue(client) EXCEPT !.scope = "inside"])
    /\ UNCHANGED <<session_state, exchange, objects, reads, max_retries, json_error_is_request_exception,
                   pc, caller, args, data, attempt, post_calls, replies, sleeps,
                   made, outcome>>

\* The with block is left, normally or by the exception its last call
\* raised: __exit__ calls close() and returns None, so the with statement
\* re-raises the exception.
ExitWith ==
    /\ pc \in {"idle", "done"}
    /\ ~IsNone(client)
    /\ TheValue(client).scope = "inside"
    /\ LET raising == pc = "done" /\ outcome.kind = "raise" IN
       client' = Some([close(TheValue(client)) EXCEPT
                          !.scope = "left",
                          !.with_outcome = IF raising THEN Raised(outcome.exc)
                                           ELSE Returned(JNone)])
    /\ UNCHANGED <<session_state, exchange, objects, reads, max_retries, json_error_is_request_exception,
                   pc, caller, args, data, attempt, post_calls, replies, sleeps,
                   made, outcome>>

\* The caller goes on to its next statement.
NextStatement ==
    /\ pc = "done"
    /\ pc' = "idle"
    /\ caller' = "none"
    /\ args' = NoArgs
    /\ data' = None
    /\ attempt' = 0
    /\ post_calls' = 0
    /\ replies' = <<>>
    /\ sleeps' = <<>>
    /\ made' = NoOutcome
    /\ outcome' = NoOutcome
    /\ UNCHANGED <<session_state, exchange, client, objects, reads, max_retries, json_error_is_request_exception>>

NextClient ==
    \/ Construct
    \/ ClientGenerate
    \/ Attempt
    \/ LoopExhausted
    \/ Close
    \/ EnterWith
    \/ ExitWith
    \/ NextStatement

SpecClient == InitClient /\ [][NextClient]_vars

\* A value that holds a non-empty credential.
NonEmpty(v) == v # JNone /\ v # JStr("")

\* C22: constructing the client fails with AuthenticationError exactly when
\* neither the api_key argument nor the OPENAI_API_KEY environment variable
\* holds a non-empty credential; otherwise it succeeds and the bearer header
\* carries the argument when that is non-empty, else the environment value.
\* A call is only ever in progress on a client that holds a credential.
C22_CredentialRequired ==
    /\ (caller = "__init__" /\ pc = "done") =>
          /\ outcome.kind \in {"return", "raise"}
          /\ outcome.kind = "raise" <=>
                (~NonEmpty(args.api_key) /\ ~NonEmpty(args.getenv))
          /\ outcome.kind = "raise" =>
                /\ outcome.exc.type = "AuthenticationError"
                /\ IsNone(client)
          /\ outcome.kind = "return" =>
                /\ ~IsNone(client)
                /\ TheValue(client).Authorization =
                      "Bearer " \o (IF NonEmpty(args.api_key) THEN args.api_key.v
                                    ELSE args.getenv.v)
    /\ (caller \in FacadeOperations \/ post_calls > 0) =>
          /\ ~IsNone(client)
          /\ NonEmpty(TheValue(client).api_key)
          /\ TheValue(client).Authorization =
                "Bearer " \o TheValue(client).api_key.v

\* An empty api_key argument and a key in the environment: the client is
\* built and sends the environment's key.
C22_Witness ==
    /\ caller = "__init__"
    /\ pc = "done"
    /\ args.api_key = JStr("")
    /\ args.getenv = JStr("sk-env")
    /\ outcome.kind = "return"
    /\ ~IsNone(client)
    /\ TheValue(client).Authorization = "Bearer sk-env"

\* The client, once constructed.
Self == TheValue(client)

\* close() has just returned, the with block has closed the client when it
\* was left, and the with statement ended as its body did.
ClosedWithoutRaising ==
    /\ (caller = "close" /\ pc = "done") =>
          /\ outcome = Returned(JNone)
          /\ Self.close_calls >= 1
          /\ Self.pools = "empty"
    /\ Self.scope = "left" =>
          /\ Self.close_calls >= 1
          /\ Self.with_outcome.kind \in {"return", "raise"}

\* C23 as stated: close never raises, and from the first close on the
\* session stays closed whatever the caller does next; leaving the with
\* block closes the client, and the body's exception propagates.
C23_SessionStaysClosed ==
    ~IsNone(client) =>
        /\ ClosedWithoutRaising
        /\ Self.close_calls > 0 => Self.pools = "empty"

\* C23, amended: close never raises, however often and in whatever order
\* with the other operations it is called, and it leaves the session without
\* a connection pool; the session stays so until the client posts again (the
\* client keeps no closed state: a request made after close is sent and
\* opens a pool again).  Leaving the with block calls close once, whether
\* the body completed or raised, and the exception of the body is the
\* exception of the with statement.
C23_CloseReleases ==
    /\ [](~IsNone(client) => ClosedWithoutRaising)
    /\ [][(~IsNone(client) /\ Self.pools = "empty"
             /\ TheValue(client').pools # "empty")
          => post_calls' = post_calls + 1]_vars
    /\ [][(~IsNone(client) /\ Self.scope = "inside"
             /\ TheValue(client').scope # "inside")
          => /\ TheValue(client').scope = "left"
             /\ TheValue(client').close_calls = Self.close_calls + 1
             /\ TheValue(client').pools = "empty"
             /\ TheValue(client').with_outcome =
                   IF pc = "done" /\ outcome.kind = "raise"
                   THEN Raised(outcome.exc) ELSE Returned(JNone)
             /\ outcome' = outcome]_vars

\* A client closed twice and posting in between left its with block by a
\* RateLimitError: the pools are released and the error is the with
\* statement's.
C23_Witness ==
    /\ ~IsNone(client)
    /\ Self.scope = "left"
    /\ Self.close_calls >= 2
    /\ Self.pools = "empty"
    /\ post_calls > 0
    /\ pc = "done"
    /\ outcome.kind = "raise"
    /\ outcome.exc.type = "RateLimitError"
    /\ Self.with_outcome = Raised(outcome.exc)

\* ------------------------------------------------------ the page's handlers

HistoryLimit == 10

\* The prompt box, as a sequence of characters: blank, or a request.
PromptInputs == { <<" ">>, <<"h", "i">> }

\* What the sidebar holds: the key typed in, the key of the environment, and
\* the response format chosen: a page ready to generate, a page without a
\* key, and a page whose format has an unknown tone.
PageInputs ==
    {[api_key |-> JStr("sk-page"), getenv |-> JNone,
      response_format |-> FormatFields(Some(Lit("email")), Some(Lit("formal")), None, None)],
     [api_key |-> JStr(""), getenv |-> JNone,
      response_format |-> FormatFields(Some(Lit("email")), Some(Lit("formal")), None, None)],
     [api_key |-> JStr(""), getenv |-> JStr("sk-env"),
      response_format |-> FormatFields(Some(Lit("email")), None, Some(Lit("informative")), None)]}

\* What api.generate_response ends in: a result with a message, a result
\* with a text only, a result whose first output entry has a null content,
\* or an error of the library.
ClientResults ==
    {AfterMakeRequest(Returned(JDict([id |-> JStr("resp_1"),
                                      output |-> JList(<<MessageWith("hello")>>)]))),
     AfterMakeRequest(Returned(JDict([id |-> JStr("resp_2"),
                                      text |-> JStr("plain text")]))),
     AfterMakeRequest(Returned(JDict([id |-> JStr("resp_3"),
                                      output |-> JList(<<JDict([type |-> JStr("message"),
                                                                content |-> JNone])>>)]))),
     AfterMakeRequest(Raised(RateLimitError("Rate limit exceeded")))}

\* str.strip() == "" : nothing but white space.
IsBlank(prompt) == \A i \in 1..Len(prompt) : prompt[i] = " "

\* generate_response of app.py: the pair (response, error) it returns, given
\* what api.generate_response ends in when it is called.
app_generate_response(page, result) ==
    LET built == Client_new(IF Truthy(page.api_key) THEN page.api_key
                            ELSE page.getenv, page.getenv)
        format == ResponseFormat_new(page.response_format)
        raised == IF built.kind = "raise" THEN Some(built.exc)
                  ELSE IF IsNone(format)
                  THEN Some(ForeignError("pydantic.ValidationError",
                                         "validation error for ResponseFormat"))
                  ELSE IF result.kind = "raise" THEN Some(result.exc)
                  ELSE None
        called == built.kind # "raise" /\ ~IsNone(format)
    IN IF IsNone(raised)
       THEN [called |-> called, response |-> result.value, error |-> JNone]
       ELSE [called |-> called,
             response |-> JNone,
             error |-> JStr(IF TheValue(raised).type = "AuthenticationError"
                            THEN "Authentication error: "
                                 \o TheValue(raised).message
                                 \o ". Please check your API key."
                            ELSE IF IsAPIError(TheValue(raised))
                            THEN "API error: " \o TheValue(raised).message
                            ELSE "Unexpected error: " \o TheValue(raised).message)]

\* The history is never cut.
Appended_Uncut(history, entry) == Append(history, entry)

\* The history after one more exchange: the last HistoryLimit entries.
Appended(history, entry) ==
    LET longer == Append(history, entry) IN
    IF Len(longer) > HistoryLimit
    THEN SubSeq(longer, Len(longer) - HistoryLimit + 1, Len(longer))
    ELSE longer

\* What pressing Generate on a page comes to once the prompt is accepted,
\* for each page and each end of the client call: whether a key is there,
\* what generate_response of app.py returns, the id the client gave back,
\* and what reading response.content ends in when the call succeeded.
Handled ==
    {LET r == app_generate_response(page, result)
         succeeded == r.response # JNone /\ ~Truthy(r.error)
     IN [has_key |-> Truthy(page.api_key) \/ Truthy(page.getenv),
         called |-> r.called,
         result |-> IF r.called THEN result.kind ELSE "none",
         id |-> IF r.called /\ result.kind = "return"
                THEN result.value.v["id"] ELSE JNone,
         response |-> r.response,
         error |-> r.error,
         succeeded |-> succeeded,
         read |-> IF succeeded THEN content(r.response) ELSE NoOutcome] :
       page \in PageInputs, result \in ClientResults}

\* The Generate button of main.  A blank prompt or a missing key shows an
\* error and calls nothing.  Otherwise the previous id is read from
\* last_response, the client is called, and history, last_response and
\* last_error are set; an exception raised by response.content leaves main
\* before any of them is written.
Generate ==
    /\ pc = "idle"
    /\ caller = "none"
    /\ \E prompt \in PromptInputs, h \in Handled :
        LET pressed == [action |-> "Generate", called |-> FALSE,
                        previous_response_id |-> JNone, result |-> "none",
                        received_before |-> exchange.received,
                        received |-> exchange.received,
                        exchanges_before |->
                            Len(session_state.conversation_history)]
        IN IF IsBlank(prompt) \/ ~h.has_key
           THEN /\ exchange' = pressed
                /\ UNCHANGED <<session_state, reads>>
           ELSE /\ exchange' =
                     [pressed EXCEPT
                        !.called = h.called,
                        !.previous_response_id =
                            IF ~h.called THEN JNone
                            ELSE IF session_state.last_response # JNone
                            THEN session_state.last_response.v["id"]
                            ELSE JNone,
                        !.result = h.result,
                        !.received = IF h.id # JNone THEN h.id
                                     ELSE exchange.received]
                /\ reads' = [reads EXCEPT !.content = h.read]
                /\ IF h.read.kind = "raise"
                   THEN UNCHANGED session_state
                   ELSE session_state' =
                          [conversation_history |->
                               IF h.succeeded
                               THEN Appended(session_state.conversation_history,
                                             <<prompt, h.read.value>>)
                               ELSE session_state.conversation_history,
                           last_response |-> h.response,
                           last_error |-> h.error]
    /\ UNCHANGED <<client, objects, max_retries, json_error_is_request_exception,
                   pc, caller, args, data, attempt, post_calls, replies, sleeps,
                   made, outcome>>

\* The clear button of create_prompt_section.
Clear ==
    /\ pc = "idle"
    /\ caller = "none"
    /\ session_state' = [conversation_history |-> <<>>,
                         last_response |-> JNone, last_error |-> JNone]
    /\ exchange' = [NoExchange EXCEPT !.action = "Clear"]
    /\ UNCHANGED <<client, objects, reads, max_retries,
                   json_error_is_request_exception, pc, caller, args, data,
                   attempt, post_calls, replies, sleeps, made, outcome>>

NextApp == Generate \/ Clear

\* The page is served by a client with the default max_retries; nothing it
\* does depends on how the transport treats an undecodable body.
InitApp == InitBuilder /\ json_error_is_request_exception

SpecApp == InitApp /\ [][NextApp]_vars

\* The history shown on the page.
History == session_state.conversation_history

\* C25: on every Generate that calls the client, the previous_response_id
\* supplied is the id of the last result the client returned since the last
\* Clear, and it is absent only when no result was returned since then.
C25_PreviousIdIsLastReceived ==
    (exchange.action = "Generate" /\ exchange.called) =>
        exchange.previous_response_id = exchange.received_before

\* A Generate whose call returned a result and whose content was read.
GenerateSucceeded ==
    exchange'.action = "Generate" /\ reads'.content.kind = "return"
    /\ exchange'.result = "return" /\ exchange' # exchange

\* A Generate that was refused, whose call failed, or that ended in an
\* exception.
GenerateFailed ==
    exchange'.action = "Generate" /\ exchange' # exchange
    /\ ~(reads'.content.kind = "return" /\ exchange'.result = "return")

\* C29: the history never holds more than 10 exchanges.  A Generate that
\* succeeds appends one (prompt, content) pair, and past 10 the oldest is
\* dropped and the 10 most recent stay in order; a Generate that fails
\* leaves the history as it was; Clear empties the history, the last
\* response and the last error.
C29_HistoryBounded ==
    /\ [](Len(History) <= HistoryLimit)
    /\ [][GenerateSucceeded =>
            LET n == Len(History') IN
            /\ n = IF Len(History) < HistoryLimit THEN Len(History) + 1
                   ELSE HistoryLimit
            /\ History'[n][1] \in PromptInputs
            /\ History'[n][2] = reads'.content.value
            /\ \A i \in 1..(n - 1) :
                  History'[i] = History[Len(History) - (n - 1) + i]]_vars
    /\ [][GenerateFailed => History' = History]_vars
    /\ [][exchange'.action = "Clear" =>
            /\ History' = <<>>
            /\ session_state'.last_response = JNone
            /\ session_state'.last_error = JNone]_vars

\* The eleventh exchange has been added to a full history whose entries
\* differ: ten remain.
C29_Witness ==
    /\ exchange.action = "Generate"
    /\ exchange.result = "return"
    /\ reads.content.kind = "return"
    /\ exchange.exchanges_before = HistoryLimit
    /\ Len(History) = HistoryLimit
    /\ History[HistoryLimit][2] = reads.content.value
    /\ History[HistoryLimit - 1][2] # History[HistoryLimit][2]
    /\ History[1][2] # History[2][2]

====
